---- MODULE Spec2Model ----
(***************************************************************************)
(* Collision and rigid-body engine of Descent: Triangle / AABB / BVH       *)
(* primitives, the PhysicsObject integrator, the discrete and swept        *)
(* narrow phase and the contact resolver.                                  *)
(*                                                                         *)
(* Numbers.  The program computes in IEEE doubles; the model computes in   *)
(* fixed point: a length, speed or unit-vector component x is the integer  *)
(* x * Unit, rounded to the nearest integer after every division and       *)
(* square root.  Where the program forms quotients of products of dot      *)
(* products (closestPointToPoint) the model keeps the quotient as a        *)
(* reduced fraction, so that region tests and barycentric weights are      *)
(* exact.  A fraction with denominator 0 stands for a non-finite double    *)
(* (NaN or +-Infinity).                                                    *)
(***************************************************************************)
EXTENDS Integers, Sequences, FiniteSets, TLC

VARIABLES
    tri, pt, cp,                    \* closest-point query: triangle, point, result
    soup, bvh, qc, qr, qres,        \* BVH query: triangle list, tree, sphere, result
    sphere, floor,                  \* the dynamic sphere and the static floor
    useCCD, gravityOn,              \* swept detection enabled; applyGravity in the frame
    frame,                          \* frames simulated so far
    last,                           \* outcome of the last collision call
    contactAge,                     \* frames since the first resolved contact (0: none yet)
    passed,                         \* the sphere ended some step below the floor's top face
    op, before,                     \* single contact: the call made, the body before it
    caseNo, tunnelled, caught,      \* regression run: next case, cases that passed the
                                    \* floor, cases in which a contact was resolved
    floors, grid, gridDirty, nearby,\* the static colliders, the hash grid over them,
                                    \* its dirty mark and the last queryNearby
    bodies, threw, call,            \* two bodies, an uncaught exception, the last call on them
    lastTime, rawDt, stepDt,        \* Setup: time of the last frame (ms), its interval and the step used
    meshes, resolved,               \* the floor list; the contacts of the last step
    staticBody, meshCalls,          \* a static body with its mesh transform; calls made on it
    tree, answer, nodeCalls,        \* FloorNodes by id; the last world-transform query; calls made
    genPc, playerX, branches, floorCount, distanceToEnd,\* GameLogic: position in update, the player, branch ends, floors made, the distance update computed
    now, timeOffset, lastValidTime, isFirstFrame, isFocused, hidden, upd,\* main loop: real time (ms), the clock offset, last game time, flags, the last update made
    allNodes, managerFloors, removedNodes, pruneCalls\* FloorTree.allNodes, floorManager.floors, nodes pruned so far, prune calls

triVars == <<tri, pt, cp>>
bvhVars == <<soup, bvh, qc, qr, qres>>
simVars == <<sphere, floor, useCCD, gravityOn, frame, last, contactAge, passed>>
oneVars == <<op, before>>
regVars == <<caseNo, tunnelled, caught>>
gridVars == <<floors, grid, gridDirty, nearby>>
pairVars == <<bodies, threw, call>>
clockVars == <<lastTime, rawDt, stepDt>>
stepVars == <<meshes, resolved>>
meshVars == <<staticBody, meshCalls>>
nodeVars == <<tree, answer, nodeCalls>>
genVars == <<genPc, playerX, branches, floorCount, distanceToEnd>>
loopVars == <<now, timeOffset, lastValidTime, isFirstFrame, isFocused, hidden, upd>>
pruneVars == <<allNodes, managerFloors, removedNodes, pruneCalls>>
vars == <<tri, pt, cp, soup, bvh, qc, qr, qres,
          sphere, floor, useCCD, gravityOn, frame, last, contactAge, passed,
          op, before, caseNo, tunnelled, caught, floors, grid, gridDirty, nearby,
          bodies, threw, call,
          lastTime, rawDt, stepDt,
          meshes, resolved,
          staticBody, meshCalls,
          tree, answer, nodeCalls,
          genPc, playerX, branches, floorCount, distanceToEnd,
          now, timeOffset, lastValidTime, isFirstFrame, isFocused, hidden, upd,
          allNodes, managerFloors, removedNodes, pruneCalls>>

(***************************************************************************)
(* Arithmetic                                                              *)
(***************************************************************************)
Unit == 10 * 100                    \* fixed-point steps per world unit

Abs(a) == IF a < 0 THEN -a ELSE a
Min(a, b) == IF a <= b THEN a ELSE b
Max(a, b) == IF a >= b THEN a ELSE b
Sign(a) == IF a < 0 THEN -1 ELSE IF a > 0 THEN 1 ELSE 0

\* a / b rounded to the nearest integer (b > 0), halves away from zero
RoundDiv(a, b) ==
    IF a >= 0 THEN (a + (b \div 2)) \div b ELSE -((-a + (b \div 2)) \div b)

\* a * b / Unit: the product of two fixed-point numbers
Mul(a, b) == RoundDiv(a * b, Unit)

RECURSIVE Gcd(_, _)
Gcd(a, b) == IF b = 0 THEN a ELSE Gcd(b, a % b)

RECURSIVE SqrtSearch(_, _, _)
SqrtSearch(n, lo, hi) ==
    IF lo >= hi THEN lo
    ELSE LET mid == (lo + hi + 1) \div 2
         IN IF mid * mid <= n THEN SqrtSearch(n, mid, hi)
            ELSE SqrtSearch(n, lo, mid - 1)

\* Math.sqrt, rounded to the nearest integer
Sqrt(n) ==
    LET nearest(r) == IF n - r * r > r THEN r + 1 ELSE r
    IN nearest(SqrtSearch(n, 0, Min(n, 46340)))

\* a quotient num/den kept as a reduced fraction; den = 0: non-finite
Frac(num, den) ==
    IF den = 0 THEN [n |-> num, d |-> 0]
    ELSE LET g == Gcd(Abs(num), Abs(den))
             s == IF den < 0 THEN -1 ELSE 1
         IN [n |-> s * (num \div g), d |-> s * (den \div g)]

FracFinite(f) == f.d # 0
FracGeq0(f) == f.d # 0 /\ f.n >= 0
FracLeq1(f) == f.d # 0 /\ f.n <= f.d
\* 1 - f - g
FracRest(f, g) == Frac(f.d * g.d - f.n * g.d - g.n * f.d, f.d * g.d)

(***************************************************************************)
(* THREE.Vector3                                                           *)
(***************************************************************************)
Vec(x, y, z) == [x |-> x, y |-> y, z |-> z]
Zero3 == Vec(0, 0, 0)
VAdd(a, b) == Vec(a.x + b.x, a.y + b.y, a.z + b.z)
VSub(a, b) == Vec(a.x - b.x, a.y - b.y, a.z - b.z)
Dot(a, b) == a.x * b.x + a.y * b.y + a.z * b.z
Cross(a, b) ==
    Vec(a.y * b.z - a.z * b.y, a.z * b.x - a.x * b.z, a.x * b.y - a.y * b.x)
VGcd(a) == Gcd(Gcd(Abs(a.x), Abs(a.y)), Abs(a.z))
VDivExact(a, g) == IF g = 0 THEN a ELSE Vec(a.x \div g, a.y \div g, a.z \div g)
\* v * (num/den), component-wise, rounded
VScaleFrac(a, num, den) ==
    Vec(RoundDiv(a.x * num, den), RoundDiv(a.y * num, den), RoundDiv(a.z * num, den))
\* multiplyScalar by a fixed-point scalar
VScale(a, s) == Vec(Mul(a.x, s), Mul(a.y, s), Mul(a.z, s))
\* addScaledVector(b, s)
VAddScaled(a, b, s) == VAdd(a, VScale(b, s))
LengthSq(a) == Dot(a, a)
MaxComp(a) == Max(Abs(a.x), Max(Abs(a.y), Abs(a.z)))
\* length(): long vectors are scaled down before squaring
Length(a) ==
    LET k == (MaxComp(a) \div (20 * Unit)) + 1
    IN k * Sqrt(LengthSq(Vec(RoundDiv(a.x, k), RoundDiv(a.y, k), RoundDiv(a.z, k))))
DistSq(a, b) == LengthSq(VSub(a, b))
Dist(a, b) == Length(VSub(a, b))
\* fixed-point dot product of a vector with a unit vector
DotN(a, n) == RoundDiv(Dot(a, n), Unit)

\* normalize(): divideScalar(length() || 1); the result has length Unit.
\* The vector is first rescaled so that its largest component is about
\* NormRange: the square root then keeps four significant digits.
NormRange == 20 * Unit
Normalize(a) ==
    LET m == MaxComp(a)
        s == IF m = 0 THEN a
             ELSE IF m <= NormRange
                  THEN Vec(a.x * (NormRange \div m), a.y * (NormRange \div m),
                           a.z * (NormRange \div m))
                  ELSE VDivExact(a, (m \div NormRange) + 1)
    IN IF m = 0 THEN Zero3 ELSE VScaleFrac(s, Unit, Length(s))

(***************************************************************************)
(* AABB                                                                    *)
(***************************************************************************)
AABB(min, max) ==
    [min |-> min, max |-> max,
     center |-> Vec(RoundDiv(min.x + max.x, 2), RoundDiv(min.y + max.y, 2),
                    RoundDiv(min.z + max.z, 2))]

Clamp(lo, v, hi) == Max(lo, Min(v, hi))

intersectsSphere(box, center, radius) ==
    LET closestPoint == Vec(Clamp(box.min.x, center.x, box.max.x),
                            Clamp(box.min.y, center.y, box.max.y),
                            Clamp(box.min.z, center.z, box.max.z))
    IN DistSq(closestPoint, center) <= radius * radius

union(a, b) ==
    AABB(Vec(Min(a.min.x, b.min.x), Min(a.min.y, b.min.y), Min(a.min.z, b.min.z)),
         Vec(Max(a.max.x, b.max.x), Max(a.max.y, b.max.y), Max(a.max.z, b.max.z)))

(***************************************************************************)
(* Triangle                                                                *)
(***************************************************************************)
Min3(a, b, c) == Min(a, Min(b, c))
Max3(a, b, c) == Max(a, Max(b, c))

computeAABB(v0, v1, v2) ==
    AABB(Vec(Min3(v0.x, v1.x, v2.x), Min3(v0.y, v1.y, v2.y), Min3(v0.z, v1.z, v2.z)),
         Vec(Max3(v0.x, v1.x, v2.x), Max3(v0.y, v1.y, v2.y), Max3(v0.z, v1.z, v2.z)))

\* constructor + updateProperties; id tells apart triangles of equal geometry
Triangle(id, v0, v1, v2) ==
    LET edge1 == VSub(v1, v0)
        edge2 == VSub(v2, v0)
    IN [id |-> id, v0 |-> v0, v1 |-> v1, v2 |-> v2,
        edge1 |-> edge1, edge2 |-> edge2,
        normal |-> Normalize(Cross(VDivExact(edge1, Gcd(VGcd(edge1), VGcd(edge2))),
                                   VDivExact(edge2, Gcd(VGcd(edge1), VGcd(edge2))))),
        centroid |-> Vec(RoundDiv(v0.x + v1.x + v2.x, 3),
                         RoundDiv(v0.y + v1.y + v2.y, 3),
                         RoundDiv(v0.z + v1.z + v2.z, 3)),
        aabb |-> computeAABB(v0, v1, v2)]

\* The barycentric weights (v, w) closestPointToPoint computes: the point it
\* returns is v0 + v*edge1 + w*edge2.  The two edges are first divided by the
\* common factor of their components: every dot product then carries that
\* factor once, and it cancels in each sign test and each quotient.
closestRegion(d1, d2, d3, d4, d5, d6) ==
    LET vc == d1 * d4 - d3 * d2
        vb == d5 * d2 - d1 * d6
        va == d3 * d6 - d5 * d4
    IN IF d1 <= 0 /\ d2 <= 0 THEN [v |-> Frac(0, 1), w |-> Frac(0, 1)]
       ELSE IF d3 >= 0 /\ d4 <= d3 THEN [v |-> Frac(1, 1), w |-> Frac(0, 1)]
       ELSE IF vc <= 0 /\ d1 >= 0 /\ d3 <= 0
            THEN [v |-> Frac(d1, d1 - d3), w |-> Frac(0, 1)]
       ELSE IF d6 >= 0 /\ d5 <= d6 THEN [v |-> Frac(0, 1), w |-> Frac(1, 1)]
       ELSE IF vb <= 0 /\ d2 >= 0 /\ d6 <= 0
            THEN [v |-> Frac(0, 1), w |-> Frac(d2, d2 - d6)]
       ELSE IF va <= 0 /\ (d4 - d3) >= 0 /\ (d5 - d6) >= 0
            THEN \* v1 + w*(v2 - v1)
                 [v |-> Frac((d5 - d6), (d4 - d3) + (d5 - d6)),
                  w |-> Frac((d4 - d3), (d4 - d3) + (d5 - d6))]
       ELSE [v |-> Frac(vb, va + vb + vc), w |-> Frac(vc, va + vb + vc)]

closestBary(t, point) ==
    LET g  == Gcd(VGcd(t.edge1), VGcd(t.edge2))
        ab == VDivExact(t.edge1, g)
        ac == VDivExact(t.edge2, g)
        ap == VSub(point, t.v0)
        bp == VSub(point, t.v1)
        pc == VSub(point, t.v2)
    IN closestRegion(Dot(ab, ap), Dot(ac, ap), Dot(ab, bp), Dot(ac, bp),
                     Dot(ab, pc), Dot(ac, pc))

\* TRUE when a component of the returned point is NaN
closestIsNaN(t, point) ==
    LET isNaN(bary) == ~FracFinite(bary.v) \/ ~FracFinite(bary.w)
    IN isNaN(closestBary(t, point))

closestPointToPoint(t, point) ==
    LET pointAt(bary) ==
            IF ~FracFinite(bary.v) \/ ~FracFinite(bary.w) THEN t.v0
            ELSE VAdd(t.v0, VAdd(VScaleFrac(t.edge1, bary.v.n, bary.v.d),
                                 VScaleFrac(t.edge2, bary.w.n, bary.w.d)))
    IN pointAt(closestBary(t, point))

(***************************************************************************)
(* BVH                                                                     *)
(***************************************************************************)
LeafSize == 4
MaxDepth == 20
maxResults == 50

\* Array.prototype.sort with a comparator that subtracts two keys: a stable
\* ascending sort by key.  keys[i] is the key of seq[i].
RECURSIVE Insert(_, _, _)
Insert(sorted, e, i) ==
    IF i = 0 \/ ~(e.key < sorted[i].key)
    THEN SubSeq(sorted, 1, i) \o <<e>> \o SubSeq(sorted, i + 1, Len(sorted))
    ELSE Insert(sorted, e, i - 1)

RECURSIVE SortFrom(_, _, _, _)
\* (acc holds the first i - 1 entries; the test has it computed at each step)
SortFrom(seq, keys, i, acc) ==
    IF i > Len(seq) \/ Len(acc) # i - 1 THEN acc
    ELSE SortFrom(seq, keys, i + 1,
                  Insert(acc, [key |-> keys[i], val |-> seq[i]], Len(acc)))

Sort(seq, keys) ==
    LET values(sorted) == [i \in 1..Len(seq) |-> sorted[i].val]
    IN values(SortFrom(seq, keys, 1, <<>>))

\* new BVHNode(): aabb = null, left = right = null, no triangles, not a leaf
BVHNode == [hasAabb |-> FALSE, isLeaf |-> FALSE, triangles |-> <<>>]

\* a union that stops at the first triangle
UnionFrom_First(triangles, i, aabb) == aabb

RECURSIVE UnionFrom(_, _, _)
\* (the test on the box has each union computed before the next one is taken)
UnionFrom(triangles, i, aabb) ==
    IF i > Len(triangles) \/ aabb.min.x > aabb.max.x THEN aabb
    ELSE UnionFrom(triangles, i + 1, union(aabb, triangles[i].aabb))

\* the longest axis of a box: 0 = x, 1 = y, 2 = z
SplitAxis(aabb) ==
    LET extent == VSub(aabb.max, aabb.min)
    IN IF extent.y > extent.x /\ extent.y > extent.z THEN 1
       ELSE IF extent.z > extent.x /\ extent.z > extent.y THEN 2
       ELSE 0

Along(v, axis) == IF axis = 0 THEN v.x ELSE IF axis = 1 THEN v.y ELSE v.z

\* a split that puts every triangle into the right half
SplitMid_Zero(n) == 0

SplitMid(n) == n \div 2

RECURSIVE build(_, _)
build(triangles, depth) ==
    IF Len(triangles) = 0 THEN BVHNode
    ELSE LET mid == SplitMid(Len(triangles))
             inner(aabb, sorted) ==
                 [hasAabb |-> TRUE, aabb |-> aabb, isLeaf |-> FALSE,
                  triangles |-> <<>>,
                  left |-> build(SubSeq(sorted, 1, mid), depth + 1),
                  right |-> build(SubSeq(sorted, mid + 1, Len(sorted)), depth + 1)]
             node(aabb) ==
                 IF Len(triangles) <= LeafSize \/ depth > MaxDepth
                 THEN [hasAabb |-> TRUE, aabb |-> aabb, isLeaf |-> TRUE,
                       triangles |-> triangles]
                 ELSE inner(aabb,
                            Sort(triangles,
                                 [i \in 1..Len(triangles) |->
                                     Along(triangles[i].centroid, SplitAxis(aabb))]))
         IN node(UnionFrom(triangles, 2, triangles[1].aabb))

\* results.length = maxResults after sorting by centroid distance
TrimResults(results, center, limit) ==
    IF Len(results) >= limit * 2
    THEN SubSeq(Sort(results, [i \in 1..Len(results) |->
                                  DistSq(results[i].centroid, center)]), 1, limit)
    ELSE results

\* the entry stack.pop() returns after stack.sort((a, b) => a.distSq - b.distSq)
PopIndex(sorted) == Len(sorted)

\* the while loop of querySphere: the triangles returned and, for each node
\* taken from the stack, its distSq and those of the nodes left pending
RECURSIVE queryLoop(_, _, _, _, _, _)
queryLoop(stack, results, visits, center, radius, limit) ==
    IF Len(stack) = 0 THEN [results |-> results, visits |-> visits]
    ELSE
      LET visit(sorted) ==
            LET k == PopIndex(sorted)
                top == sorted[k]
                rest == SubSeq(sorted, 1, k - 1) \o SubSeq(sorted, k + 1, Len(sorted))
                currentNode == top.node
                seen == Append(visits, [distSq |-> top.distSq,
                                        pending |-> [i \in 1..Len(rest) |-> rest[i].distSq]])
            \* (the test on seen has the record of this visit computed here)
            IN IF Len(seen) = 0 \/ ~currentNode.hasAabb
               THEN queryLoop(rest, results, seen, center, radius, limit)
               ELSE IF Len(results) >= limit /\ top.distSq > radius * radius
               THEN [results |-> results, visits |-> seen]
               ELSE IF ~intersectsSphere(currentNode.aabb, center, radius)
               THEN queryLoop(rest, results, seen, center, radius, limit)
               ELSE IF currentNode.isLeaf
               THEN queryLoop(rest,
                              TrimResults(results \o currentNode.triangles, center, limit),
                              seen, center, radius, limit)
               ELSE queryLoop(rest \o
                        <<[node |-> currentNode.left,
                           distSq |-> DistSq(currentNode.left.aabb.center, center)],
                          [node |-> currentNode.right,
                           distSq |-> DistSq(currentNode.right.aabb.center, center)]>>,
                        results, seen, center, radius, limit)
      IN visit(Sort(stack, [i \in 1..Len(stack) |-> stack[i].distSq]))

\* querySphere(node, center, radius), with the order of its visits
queryVisits(node, center, radius) ==
    queryLoop(<<[node |-> node, distSq |-> 0]>>, <<>>, <<>>, center, radius, maxResults)

querySphere(node, center, radius) == queryVisits(node, center, radius).results

(***************************************************************************)
(* PhysicsObject                                                           *)
(***************************************************************************)
\* k/1000 as a fixed-point number
Milli(k) == RoundDiv(k * Unit, 1000)
\* a / b for fixed-point a, b
FDiv(a, b) == IF b > 0 THEN RoundDiv(a * Unit, b) ELSE 0 - RoundDiv(a * Unit, 0 - b)
\* a x n / Unit: cross product of a fixed-point vector with a unit vector
CrossN(a, n) ==
    LET c == Cross(a, n)
    IN Vec(RoundDiv(c.x, Unit), RoundDiv(c.y, Unit), RoundDiv(c.z, Unit))
\* v * dt for dt = n/d seconds
ScaleDt(v, dt) == Vec(RoundDiv(v.x * dt.n, dt.d), RoundDiv(v.y * dt.n, dt.d),
                      RoundDiv(v.z * dt.n, dt.d))

Infinity == 0 - 1           \* momentOfInertia of a static body
NoMeshBvh == [built |-> FALSE, root |-> BVHNode]   \* bvh = null

\* constructor
PhysicsObject(mass, position, velocity) ==
    [mass |-> mass, position |-> position, velocity |-> velocity,
     acceleration |-> Zero3, isStatic |-> (mass = 0), radius |-> Unit,
     angularVelocity |-> Zero3, angularAcceleration |-> Zero3,
     momentOfInertia |-> IF mass > 0
                         THEN RoundDiv(2 * Mul(mass, Mul(Unit, Unit)), 5)
                         ELSE Infinity,
     restitution |-> 0, friction |-> 0,
     triangles |-> <<>>, bvh |-> NoMeshBvh, bvhBuilt |-> FALSE]

\* an update that leaves the accumulators as they are
update_KeepForces(b, dt) ==
    IF b.isStatic THEN b
    ELSE LET velocity == VAdd(b.velocity, ScaleDt(b.acceleration, dt))
         IN [b EXCEPT !.velocity = velocity,
                      !.position = VAdd(b.position, ScaleDt(velocity, dt)),
                      !.angularVelocity =
                          VAdd(b.angularVelocity, ScaleDt(b.angularAcceleration, dt))]

update(b, dt) ==
    IF b.isStatic THEN b
    ELSE LET velocity == VAdd(b.velocity, ScaleDt(b.acceleration, dt))
         IN [b EXCEPT !.velocity = velocity,
                      !.position = VAdd(b.position, ScaleDt(velocity, dt)),
                      !.angularVelocity =
                          VAdd(b.angularVelocity, ScaleDt(b.angularAcceleration, dt)),
                      !.acceleration = Zero3,
                      !.angularAcceleration = Zero3]

applyForce(b, force) ==
    IF b.isStatic THEN b
    ELSE [b EXCEPT !.acceleration =
            VAdd(b.acceleration, Vec(FDiv(force.x, b.mass), FDiv(force.y, b.mass),
                                     FDiv(force.z, b.mass)))]

applyTorque(b, torque) ==
    IF b.isStatic THEN b
    ELSE IF b.momentOfInertia # Infinity /\ b.momentOfInertia # 0
    THEN [b EXCEPT !.angularAcceleration =
            VAdd(b.angularAcceleration,
                 Vec(FDiv(torque.x, b.momentOfInertia), FDiv(torque.y, b.momentOfInertia),
                     FDiv(torque.z, b.momentOfInertia)))]
    ELSE b

\* CONFIG.gravity = -9.81
gravity == RoundDiv((0 - 981) * Unit, 100)

\* SphereManager.applyGravity, for one sphere
applyGravity(b) == applyForce(b, Vec(0, Mul(gravity, b.mass), 0))

\* The body of handleCollisionResponse, for the combined restitution and
\* friction and the share of the penetration that is corrected.
respond(b, contact, restitution, friction, correctionFactor) ==
    LET velAlongNormal == DotN(b.velocity, contact.normal)
        penetrationThreshold == Milli(1)
        correction == Mul(contact.penetration, correctionFactor)
        position == IF contact.penetration > penetrationThreshold
                    THEN VAddScaled(b.position, contact.normal, correction)
                    ELSE b.position
        vNormal == VScale(contact.normal, velAlongNormal)
        vTangent == VSub(b.velocity, vNormal)
        reflectedNormalSpeed == Mul(0 - velAlongNormal, restitution)
        newVNormal == VScale(contact.normal, reflectedNormalSpeed)
        vRoll == VScale(CrossN(b.angularVelocity, contact.normal), b.radius)
        vSlip == VSub(vTangent, vRoll)
        slipSpeed == Length(vSlip)
        \* friction > 0.001 and slipSpeed > 0.0001 (below the resolution: > 0)
        slips == friction > Milli(1) /\ slipSpeed > 0
        slipDir == Normalize(vSlip)
        normalImpulse == Mul(Abs(velAlongNormal), Unit + restitution)
        maxFriction == Mul(friction, normalImpulse)
        inertiaFactor == Unit + FDiv(Mul(b.radius, b.radius),
                                     FDiv(b.momentOfInertia, b.mass))
        frictionImpulse == Min(FDiv(slipSpeed, inertiaFactor), maxFriction)
        torque == CrossN(VScale(contact.normal, 0 - b.radius),
                         VScale(slipDir, Mul(0 - frictionImpulse, b.mass)))
        dOmega == Vec(FDiv(torque.x, b.momentOfInertia), FDiv(torque.y, b.momentOfInertia),
                      FDiv(torque.z, b.momentOfInertia))
        normalVel == VScale(contact.normal, velAlongNormal)
    IN IF velAlongNormal < 0 - Milli(1)
       THEN [b EXCEPT !.position = position,
                      !.velocity = VAdd(newVNormal,
                                        IF slips
                                        THEN VAddScaled(vTangent, slipDir, 0 - frictionImpulse)
                                        ELSE vTangent),
                      !.angularVelocity = IF slips THEN VAdd(b.angularVelocity, dOmega)
                                          ELSE b.angularVelocity]
       ELSE IF velAlongNormal < Milli(100) /\ contact.penetration < Milli(50)
       THEN [b EXCEPT !.position = position,
                      !.velocity = VSub(b.velocity, VScale(normalVel, Milli(500)))]
       ELSE [b EXCEPT !.position = position]

\* a response that removes the whole normal velocity of every contact the
\* body does not approach
handleCollisionResponse_Stop(b, contact, triangleMesh) ==
    LET velAlongNormal == DotN(b.velocity, contact.normal)
        out == respond(b, contact, Min(b.restitution, triangleMesh.restitution),
                       Min(b.friction, triangleMesh.friction), Milli(800))
    IN IF velAlongNormal < 0 - Milli(1) THEN out
       ELSE [out EXCEPT !.velocity = VSub(b.velocity,
                                          VScale(contact.normal, velAlongNormal))]

\* a response that takes the larger coefficient of the two bodies
handleCollisionResponse_Max(b, contact, triangleMesh) ==
    respond(b, contact, Max(b.restitution, triangleMesh.restitution),
            Max(b.friction, triangleMesh.friction), Milli(800))

\* a response that corrects the whole penetration
handleCollisionResponse_Full(b, contact, triangleMesh) ==
    respond(b, contact, Min(b.restitution, triangleMesh.restitution),
            Min(b.friction, triangleMesh.friction), Unit)

\* handleCollisionResponse(contact, triangleMesh): the body after the response
handleCollisionResponse(b, contact, triangleMesh) ==
    respond(b, contact, Min(b.restitution, triangleMesh.restitution),
            Min(b.friction, triangleMesh.friction), Milli(800))

\* _getSweptAABB
getSweptAABB(b, startPos, direction, distance) ==
    LET endPos == VAddScaled(startPos, direction, distance)
    IN [min |-> Vec(Min(startPos.x, endPos.x) - b.radius,
                    Min(startPos.y, endPos.y) - b.radius,
                    Min(startPos.z, endPos.z) - b.radius),
        max |-> Vec(Max(startPos.x, endPos.x) + b.radius,
                    Max(startPos.y, endPos.y) + b.radius,
                    Max(startPos.z, endPos.z) + b.radius)]

\* _aabbIntersectsAABB
aabbIntersectsAABB(a, b) ==
    /\ a.min.x <= b.max.x /\ a.max.x >= b.min.x
    /\ a.min.y <= b.max.y /\ a.max.y >= b.min.y
    /\ a.min.z <= b.max.z /\ a.max.z >= b.min.z

NoHit == [hit |-> FALSE, t |-> 0, point |-> Zero3, normal |-> Zero3,
          penetration |-> 0, triangle |-> 0]

\* the contact normal: from the closest point to the center, or the triangle
\* normal when they coincide (dist > 1e-6 is dist > 0 at the model's resolution)
ContactNormal(center, closest, dist, t) ==
    IF dist > 0 THEN Normalize(VSub(center, closest)) ELSE t.normal

\* sweepSphereTriangle: a hit record, or NoHit for null
\* a culling test that only rejects a travel parallel to the triangle
movingAway_ParallelOnly(denominator) == denominator = 0

\* back-face culling, denominator > -1e-6: not below zero at the model's
\* resolution
movingAway(denominator) == denominator >= 0

sweepSphereTriangle(b, startPos, direction, distance, t) ==
    LET sweepAABB == getSweptAABB(b, startPos, direction, distance)
        startClosest == closestPointToPoint(t, startPos)
        planeNormal == t.normal
        denominator == DotN(direction, planeNormal)
        d == DotN(t.v0, planeNormal)
        distToPlane == FDiv(d - DotN(startPos, planeNormal), denominator)
        tt == Max(0, Min(Unit, FDiv(distToPlane - b.radius, distance)))
        sphereCenter == VAddScaled(startPos, direction, Mul(tt, distance))
        closestPoint == closestPointToPoint(t, sphereCenter)
        \* the result, for the two distances the code measures
        hitFor(startDist, distToClosest) ==
            IF ~aabbIntersectsAABB(sweepAABB, t.aabb) THEN NoHit
            ELSE IF ~closestIsNaN(t, startPos) /\ startDist < b.radius
            THEN [hit |-> TRUE, t |-> 0, point |-> startClosest,
                  normal |-> ContactNormal(startPos, startClosest, startDist, t),
                  penetration |-> b.radius - startDist, triangle |-> t.id]
            ELSE IF movingAway(denominator) THEN NoHit
            ELSE IF distToPlane < 0 - b.radius \/ distToPlane > distance + b.radius
            THEN NoHit
            ELSE IF closestIsNaN(t, sphereCenter)
                    \/ distToClosest > b.radius + Milli(10)
            THEN NoHit
            ELSE [hit |-> TRUE, t |-> tt, point |-> closestPoint,
                  normal |-> ContactNormal(sphereCenter, closestPoint, distToClosest, t),
                  penetration |-> Max(0, b.radius - distToClosest), triangle |-> t.id]
    IN hitFor(Dist(startPos, startClosest), Dist(sphereCenter, closestPoint))

\* the loop with its comparison turned around: keeps a hit only if later than 1.0
RECURSIVE EarliestHit_Later(_, _, _, _, _, _, _)
EarliestHit_Later(b, startPos, direction, distance, candidates, i, best) ==
    IF i > Len(candidates) THEN best
    ELSE LET earliestTime == IF best.hit THEN best.t ELSE Unit
             keep(hit) ==
                 EarliestHit_Later(b, startPos, direction, distance, candidates, i + 1,
                                   IF hit.hit /\ hit.t > earliestTime THEN hit ELSE best)
         IN keep(sweepSphereTriangle(b, startPos, direction, distance, candidates[i]))

\* the loop that keeps the hit with the smallest t below 1.0
RECURSIVE EarliestHit(_, _, _, _, _, _, _)
EarliestHit(b, startPos, direction, distance, candidates, i, best) ==
    IF i > Len(candidates) THEN best
    ELSE LET earliestTime == IF best.hit THEN best.t ELSE Unit
             keep(hit) ==
                 IF hit.hit /\ hit.t < earliestTime
                 THEN EarliestHit(b, startPos, direction, distance, candidates, i + 1,
                                  hit)
                 ELSE EarliestHit(b, startPos, direction, distance, candidates, i + 1,
                                  best)
         IN keep(sweepSphereTriangle(b, startPos, direction, distance, candidates[i]))

\* An outcome of a collision call: the body after it, the path taken and the
\* contact that was resolved (NoHit when none was).
Outcome(b, path, contact) == [body |-> b, path |-> path, contact |-> contact]

\* the triangles the hierarchy returns for the sphere that encloses the whole
\* sweep
sweepCandidates(b, triangleMesh, displacement) ==
    LET startPos == b.position
        endPos == VAdd(startPos, displacement)
        queryRadius == b.radius + Length(displacement)
        queryCenter == Vec(RoundDiv(startPos.x + endPos.x, 2),
                           RoundDiv(startPos.y + endPos.y, 2),
                           RoundDiv(startPos.z + endPos.z, 2))
    IN querySphere(triangleMesh.bvh.root, queryCenter, queryRadius)

sweptCollision(b, triangleMesh, displacement, dt) ==
    LET startPos == b.position
        direction == Normalize(displacement)
        distance == Length(displacement)
        safetyMargin == Milli(2)
        stopAt(candidateTriangles, earliestHit) ==
            LET travelDistance == Max(0, Mul(earliestHit.t, distance) - safetyMargin)
                safePosition == VAddScaled(startPos, direction, travelDistance)
            IN IF Len(candidateTriangles) = 0 \/ ~earliestHit.hit
               THEN Outcome(b, "swept", NoHit)
               ELSE Outcome(handleCollisionResponse([b EXCEPT !.position = safePosition],
                                                    earliestHit, triangleMesh),
                            "swept", earliestHit)
        sweep(candidateTriangles) ==
            stopAt(candidateTriangles,
                   EarliestHit(b, startPos, direction, distance, candidateTriangles, 1,
                               NoHit))
    IN sweep(sweepCandidates(b, triangleMesh, displacement))

\* a contact test without the 0.01 margin
DiscreteContact_NoMargin(b, t) ==
    LET closest == closestPointToPoint(t, b.position)
        contactAt(dist) ==
            IF ~closestIsNaN(t, b.position) /\ dist < b.radius
            THEN [hit |-> TRUE, t |-> 0, point |-> closest,
                  normal |-> ContactNormal(b.position, closest, dist, t),
                  penetration |-> b.radius - dist, triangle |-> t.id]
            ELSE NoHit
    IN contactAt(Dist(b.position, closest))

\* a contact test that compares the distance with the margin alone
DiscreteContact_NoRadius(b, t) ==
    LET closest == closestPointToPoint(t, b.position)
        contactAt(dist) ==
            IF ~closestIsNaN(t, b.position) /\ dist < Milli(10)
            THEN [hit |-> TRUE, t |-> 0, point |-> closest,
                  normal |-> ContactNormal(b.position, closest, dist, t),
                  penetration |-> b.radius - dist, triangle |-> t.id]
            ELSE NoHit
    IN contactAt(Dist(b.position, closest))

\* the contact of a candidate triangle at the body's position, or NoHit
DiscreteContact(b, t) ==
    LET closest == closestPointToPoint(t, b.position)
        contactAt(dist) ==
            IF ~closestIsNaN(t, b.position) /\ dist < b.radius + Milli(10)
            THEN [hit |-> TRUE, t |-> 0, point |-> closest,
                  normal |-> ContactNormal(b.position, closest, dist, t),
                  penetration |-> b.radius - dist, triangle |-> t.id]
            ELSE NoHit
    IN contactAt(Dist(b.position, closest))

\* contacts.sort((a, b) => b.penetration - a.penetration)[0]: the first
\* contact of greatest penetration
RECURSIVE DeepestContact(_, _, _, _)
DeepestContact(b, candidates, i, best) ==
    IF i > Len(candidates) THEN best
    ELSE LET keep(c) ==
                 IF c.hit /\ (~best.hit \/ c.penetration > best.penetration)
                 THEN DeepestContact(b, candidates, i + 1, c)
                 ELSE DeepestContact(b, candidates, i + 1, best)
         IN keep(DiscreteContact(b, candidates[i]))

discreteCollision(b, triangleMesh, dt) ==
    LET resolve(candidateTriangles, contact) ==
            IF Len(candidateTriangles) = 0 \/ ~contact.hit
            THEN Outcome(b, "discrete", NoHit)
            ELSE Outcome(handleCollisionResponse(b, contact, triangleMesh),
                         "discrete", contact)
        test(candidateTriangles) ==
            resolve(candidateTriangles, DeepestContact(b, candidateTriangles, 1, NoHit))
    IN test(querySphere(triangleMesh.bvh.root, b.position, RoundDiv(b.radius * 3, 2)))

\* collideWithTriangleMesh(triangleMesh, dt)
collideWithTriangleMesh(b, triangleMesh, dt) ==
    LET displacement == ScaleDt(b.velocity, dt)
        displacementLength == Length(displacement)
    IN IF ~triangleMesh.bvhBuilt \/ Len(triangleMesh.triangles) = 0
       THEN Outcome(b, "none", NoHit)
       ELSE IF 2 * displacementLength > b.radius
       THEN sweptCollision(b, triangleMesh, displacement, dt)
       ELSE discreteCollision(b, triangleMesh, dt)

\* bounceOffPlane(planePosition, planeNormal, planeRestitution) of the plane
\* collider: the outcome, with the contact the call acted on
bounceOffPlane(b, planePosition, planeNormal, planeRestitution) ==
    LET toSphere == VSub(b.position, planePosition)
        distanceToPlane == DotN(toSphere, planeNormal)
        penetration == b.radius - distanceToPlane
        position == VAddScaled(b.position, planeNormal, penetration)
        vn == DotN(b.velocity, planeNormal)
        vNormal == VScale(planeNormal, vn)
        vTangent == VSub(b.velocity, vNormal)
        e == Min(b.restitution, planeRestitution)
        m == b.mass
        vRoll == VScale(CrossN(b.angularVelocity, planeNormal), b.radius)
        vSlip == VSub(vTangent, vRoll)
        slipSpeed == Length(vSlip)
        mu == b.friction
        newVn == Mul(0 - e, vn)
        bounced == VAdd(VScale(planeNormal, newVn), vTangent)
        \* slipSpeed > 1e-4 and mu > 1e-6: both above zero at the model's resolution
        slips == slipSpeed > 0 /\ mu > 0
        slipDir == Normalize(vSlip)
        j_noslip == FDiv(Mul(m, slipSpeed),
                         Unit + FDiv(Mul(m, Mul(b.radius, b.radius)), b.momentOfInertia))
        j_normal == Mul(Mul(m, Abs(vn)), Unit + e)
        j_max == Mul(mu, j_normal)
        j == Min(j_noslip, j_max)
        r == VScale(planeNormal, 0 - b.radius)
        J == VScale(slipDir, 0 - j)
        torque == CrossN(r, J)
        deltaOmega == Vec(FDiv(torque.x, b.momentOfInertia),
                          FDiv(torque.y, b.momentOfInertia),
                          FDiv(torque.z, b.momentOfInertia))
        contact == [hit |-> TRUE, t |-> 0, point |-> planePosition,
                    normal |-> planeNormal, penetration |-> penetration, triangle |-> 0]
    IN IF b.isStatic \/ distanceToPlane >= b.radius THEN Outcome(b, "plane", NoHit)
       ELSE IF vn >= 0 THEN Outcome([b EXCEPT !.position = position], "plane", contact)
       ELSE Outcome([b EXCEPT !.position = position,
                              !.velocity = IF slips
                                           THEN VAddScaled(bounced, slipDir, 0 - FDiv(j, m))
                                           ELSE bounced,
                              !.angularVelocity = IF slips
                                                  THEN VAdd(b.angularVelocity, deltaOmega)
                                                  ELSE b.angularVelocity],
                    "plane", contact)

\* buildTriangleMesh for a static body whose geometry gives these world-space
\* triangles
buildTriangleMesh(b, worldTriangles) ==
    IF b.isStatic /\ Len(worldTriangles) > 0 /\ ~b.bvhBuilt
    THEN [b EXCEPT !.triangles = worldTriangles,
                   !.bvh = [built |-> TRUE, root |-> build(worldTriangles, 0)],
                   !.bvhBuilt = TRUE]
    ELSE [b EXCEPT !.triangles = worldTriangles]

\* a rebuild that keeps the BVH it finds
rebuildCollisionMesh_Stale(b, worldTriangles) == buildTriangleMesh(b, worldTriangles)

\* rebuildCollisionMesh, for the world-space triangles of the current geometry
rebuildCollisionMesh(b, worldTriangles) ==
    buildTriangleMesh([b EXCEPT !.triangles = <<>>, !.bvh = NoMeshBvh,
                                !.bvhBuilt = FALSE],
                      worldTriangles)

(***************************************************************************)
(* Closest-point queries: a triangle and a point are drawn, then           *)
(* closestPointToPoint is applied.                                         *)
(***************************************************************************)
MaxCoord == 1

Coords == (0 - MaxCoord)..MaxCoord
PointCoords == (0 - MaxCoord - 1)..(MaxCoord + 1)
NoBary == [done |-> FALSE, v |-> Frac(0, 1), w |-> Frac(0, 1)]
NoTri == Triangle(0, Zero3, Zero3, Zero3)

NoOutcome == [path |-> "none", contact |-> NoHit]
IdleSim ==
    /\ sphere = PhysicsObject(Unit, Zero3, Zero3)
    /\ floor = PhysicsObject(0, Zero3, Zero3)
    /\ useCCD = TRUE /\ gravityOn = TRUE /\ frame = 0
    /\ last = NoOutcome /\ contactAge = 0 /\ passed = FALSE
IdleOne == op = "none" /\ before = PhysicsObject(Unit, Zero3, Zero3)
IdleReg == caseNo = 0 /\ tunnelled = {} /\ caught = {}
NoNearby == [done |-> FALSE, point |-> Zero3, radius |-> 0, result |-> <<>>]
IdleGrid == floors = {} /\ grid = <<>> /\ gridDirty = FALSE /\ nearby = NoNearby
NoCall == [name |-> "none", on |-> 0, n |-> 0]
IdlePair == bodies = <<>> /\ threw = FALSE /\ call = NoCall
IdleClock == lastTime = 0 /\ rawDt = 0 /\ stepDt = 0
IdleStep == meshes = <<>> /\ resolved = <<>>
IdleMesh == staticBody = PhysicsObject(0, Zero3, Zero3) /\ meshCalls = 0
NoAnswer == [kind |-> "none", node |-> 0, value |-> 0]
IdleNode == tree = <<>> /\ answer = NoAnswer /\ nodeCalls = 0
IdleGen ==
    /\ genPc = "idle" /\ playerX = 0 /\ branches = <<>> /\ floorCount = 0
    /\ distanceToEnd = 0
NoUpdate ==
    [ran |-> FALSE, prev |-> <<>>, time |-> 0, at |-> 0, pausedAt |-> <<>>,
     resumed |-> <<>>, whilePaused |-> FALSE, pendingPause |-> <<>>,
     pendingResume |-> <<>>]
IdleLoop ==
    /\ now = 0 /\ timeOffset = 0 /\ lastValidTime = 0 /\ isFirstFrame = TRUE
    /\ isFocused = TRUE /\ hidden = FALSE /\ upd = NoUpdate
IdlePrune ==
    allNodes = <<>> /\ managerFloors = <<>> /\ removedNodes = {} /\ pruneCalls = 0
IdleTri == tri = NoTri /\ pt = Zero3 /\ cp = NoBary
NoBvh == [built |-> FALSE]
NoResult == [done |-> FALSE, results |-> <<>>, visits |-> <<>>]
IdleBvh == soup = <<>> /\ bvh = NoBvh /\ qc = Zero3 /\ qr = 0 /\ qres = NoResult

InitTri ==
    /\ \E x1 \in Coords, y1 \in Coords, x2 \in Coords, y2 \in Coords :
          tri = Triangle(1, Zero3, Vec(x1, y1, 0), Vec(x2, y2, 0))
    /\ \E x \in PointCoords, y \in PointCoords, z \in 0..1 : pt = Vec(x, y, z)
    /\ cp = NoBary
    /\ IdleBvh /\ IdleSim /\ IdleOne /\ IdleReg /\ IdleGrid /\ IdlePair /\ IdleClock /\ IdleStep /\ IdleMesh /\ IdleNode /\ IdleGen /\ IdleLoop /\ IdlePrune

ClosestPoint ==
    /\ ~cp.done
    /\ cp' = [done |-> TRUE] @@ closestBary(tri, pt)
    /\ UNCHANGED <<tri, pt, bvhVars, simVars, oneVars, regVars, gridVars, pairVars, clockVars, stepVars, meshVars, nodeVars, genVars, loopVars, pruneVars>>

NextTri == ClosestPoint
SpecTri == InitTri /\ [][NextTri]_vars

\* weight of v0 in the returned point
BaryU == FracRest(cp.v, cp.w)
Degenerate(t) == Cross(t.edge1, t.edge2) = Zero3

\* C3: the point returned by closestPointToPoint has barycentric coordinates
\* (u, v, w) that are finite, each within [0,1], and sum to 1 (u = 1 - v - w).
C3_BarycentricInTriangle ==
    cp.done => /\ FracFinite(cp.v) /\ FracFinite(cp.w)
               /\ FracGeq0(cp.v) /\ FracLeq1(cp.v)
               /\ FracGeq0(cp.w) /\ FracLeq1(cp.w)
               /\ FracGeq0(BaryU) /\ FracLeq1(BaryU)

\* the same statement restricted to triangles of non-zero area
C3_NonDegenerate ==
    (cp.done /\ ~Degenerate(tri)) =>
        /\ FracGeq0(cp.v) /\ FracLeq1(cp.v)
        /\ FracGeq0(cp.w) /\ FracLeq1(cp.w)
        /\ FracGeq0(BaryU) /\ FracLeq1(BaryU)

(***************************************************************************)
(* BVH queries: a triangle soup and a query sphere are drawn, the BVH is  *)
(* built from the soup (new BVH(triangles)) and queried.                   *)
(***************************************************************************)
MaxTriangles == 56
Grid == 2 * 3               \* vertex spacing: centroids and box centers stay integral

\* three kinds of soup: a row of small triangles, a fan of long strips that
\* all start at the origin, and a scattered cloud
SoupTriangle(kind, i) ==
    IF kind = 0
    THEN Triangle(i, Vec(Grid * i, 0, 0), Vec(Grid * i + Grid, 0, 0), Vec(Grid * i, Grid, 0))
    ELSE IF kind = 1
    THEN Triangle(i, Zero3, Vec(Grid * 100, 0, 0), Vec(0, Grid, Grid * i))
    ELSE LET o == Vec(Grid * ((i * 7) % 11), Grid * ((i * 3) % 5), Grid * ((i * 5) % 7))
         IN Triangle(i, o, VAdd(o, Vec(Grid, 0, 0)), VAdd(o, Vec(0, Grid, Grid)))

QueryCenters == {Zero3, Vec(Grid * 5, 0, 0), Vec(Grid * 3, Grid * 2, Grid * 3)}
QueryRadii == {Grid, Grid * 4, Grid * 200}

InitBVH ==
    /\ \E kind \in 0..2, n \in 0..MaxTriangles :
          soup = [i \in 1..n |-> SoupTriangle(kind, i)]
    /\ qc \in QueryCenters
    /\ qr \in QueryRadii
    /\ bvh = NoBvh
    /\ qres = NoResult
    /\ IdleTri /\ IdleSim /\ IdleOne /\ IdleReg /\ IdleGrid /\ IdlePair /\ IdleClock /\ IdleStep /\ IdleMesh /\ IdleNode /\ IdleGen /\ IdleLoop /\ IdlePrune

\* new BVH(triangles)
BuildBVH ==
    /\ ~bvh.built
    /\ bvh' = [built |-> TRUE, root |-> build(soup, 0)]
    /\ UNCHANGED <<soup, qc, qr, qres, triVars, simVars, oneVars, regVars, gridVars, pairVars, clockVars, stepVars, meshVars, nodeVars, genVars, loopVars, pruneVars>>

\* bvh.querySphere(bvh.root, center, radius)
QueryBVH ==
    /\ bvh.built
    /\ ~qres.done
    /\ \E out \in {queryVisits(bvh.root, qc, qr)} :
          qres' = [done |-> TRUE, results |-> out.results, visits |-> out.visits]
    /\ UNCHANGED <<soup, bvh, qc, qr, triVars, simVars, oneVars, regVars, gridVars, pairVars, clockVars, stepVars, meshVars, nodeVars, genVars, loopVars, pruneVars>>

NextBVH == BuildBVH \/ QueryBVH
SpecBVH == InitBVH /\ [][NextBVH]_vars

ResultIds == {qres.results[i].id : i \in 1..Len(qres.results)}
\* brute force: the triangles whose AABB intersects the query sphere
InRange == {i \in 1..Len(soup) : intersectsSphere(soup[i].aabb, qc, qr)}

\* C2: querySphere returns a superset of the brute-force candidate set: every
\* triangle whose AABB intersects the query sphere is in the result.
C2_NoFalseNegatives == qres.done => InRange \subseteq ResultIds

(***************************************************************************)
(* The per-frame pipeline for one sphere over one static floor.            *)
(***************************************************************************)
\* the 12 triangles of a BoxGeometry(sx, sy, sz) centered at c, in world space,
\* wound so that the normals point outward
BoxTriangles(c, sx, sy, sz) ==
    LET x0 == c.x - RoundDiv(sx, 2)  x1 == c.x + RoundDiv(sx, 2)
        y0 == c.y - RoundDiv(sy, 2)  y1 == c.y + RoundDiv(sy, 2)
        z0 == c.z - RoundDiv(sz, 2)  z1 == c.z + RoundDiv(sz, 2)
        faces == <<
          <<Vec(x0, y1, z0), Vec(x0, y1, z1), Vec(x1, y1, z1), Vec(x1, y1, z0)>>,
          <<Vec(x0, y0, z0), Vec(x1, y0, z0), Vec(x1, y0, z1), Vec(x0, y0, z1)>>,
          <<Vec(x1, y0, z0), Vec(x1, y1, z0), Vec(x1, y1, z1), Vec(x1, y0, z1)>>,
          <<Vec(x0, y0, z0), Vec(x0, y0, z1), Vec(x0, y1, z1), Vec(x0, y1, z0)>>,
          <<Vec(x0, y0, z1), Vec(x1, y0, z1), Vec(x1, y1, z1), Vec(x0, y1, z1)>>,
          <<Vec(x0, y0, z0), Vec(x0, y1, z0), Vec(x1, y1, z0), Vec(x1, y0, z0)>> >>
    IN [i \in 1..12 |->
          LET f == faces[(i + 1) \div 2]
          IN IF i % 2 = 1 THEN Triangle(i, f[1], f[2], f[3])
             ELSE Triangle(i, f[1], f[3], f[4])]

FloorTop == 0 * Unit                \* y of the floor's upper face in the scenarios
FloorThickness == Unit
FloorWidth == 4 * Unit

\* FloorManager.createFloor: a static box with CONFIG.floorRestitution and
\* CONFIG.floorFriction, its collision mesh built
createFloor(restitution, friction) ==
    LET body == [PhysicsObject(0, Vec(0, FloorTop - RoundDiv(FloorThickness, 2), 0), Zero3)
                   EXCEPT !.restitution = restitution, !.friction = friction]
    IN buildTriangleMesh(body,
           BoxTriangles(body.position, FloorWidth, FloorThickness, FloorWidth))

\* one frame for one sphere: applyGravity, update(dt), then the collision call
FrameStep(b, mesh, ccd, grav, dt) ==
    LET forced == IF grav THEN applyGravity(b) ELSE b
        moved == update(forced, dt)
    IN IF ccd THEN collideWithTriangleMesh(moved, mesh, dt)
       ELSE discreteCollision(moved, mesh, dt)

FrameDt == [n |-> 1, d |-> 60]

MaxFrames == 22
MaxStart == 24                      \* starting heights sampled above the contact height
StartStep == 37

TunnelSpeed == 50 * Unit
\* the k-th starting height of the center: touching the floor or above it
StartHeight(k) == FloorTop + Unit + k * StartStep
Restitutions == {0, Milli(500), Unit}

\* the sphere of the scenarios: mass 1, radius 1, above the floor, off the
\* diagonal of the top face
Sphere(y, vy, e) ==
    [PhysicsObject(Unit, Vec(Milli(500), y, 0 - Milli(250)), Vec(0, vy, 0))
        EXCEPT !.restitution = e]

\* drop cases: height of the center and downward speed at the start
DropCases == {<<Milli(1020), 0>>, <<Milli(1050), 0>>, <<Milli(1500), 0 - 3 * Unit>>,
              <<3 * Unit, 0 - 31 * Unit>>, <<2 * Unit, 0 - 20 * Unit>>}

InitSim ==
    /\ floor = createFloor(Unit, Unit)
    /\ \/ /\ gravityOn = FALSE
          /\ useCCD \in BOOLEAN
          /\ \E k \in 0..MaxStart, e \in Restitutions :
                sphere = Sphere(StartHeight(k), 0 - TunnelSpeed, e)
       \/ /\ gravityOn = TRUE
          /\ useCCD = TRUE
          /\ \E c \in DropCases : sphere = Sphere(c[1], c[2], 0)
    /\ frame = 0 /\ last = NoOutcome /\ contactAge = 0 /\ passed = FALSE
    /\ IdleTri /\ IdleBvh /\ IdleOne /\ IdleReg /\ IdleGrid /\ IdlePair /\ IdleClock /\ IdleStep /\ IdleMesh /\ IdleNode /\ IdleGen /\ IdleLoop /\ IdlePrune

\* Game.update / Setup.update for the sphere
Frame ==
    /\ frame < MaxFrames
    /\ \E out \in {FrameStep(sphere, floor, useCCD, gravityOn, FrameDt)} :
          /\ sphere' = out.body
          /\ last' = [path |-> out.path, contact |-> out.contact]
          /\ contactAge' = IF contactAge > 0 THEN contactAge + 1
                           ELSE IF out.contact.hit THEN 1 ELSE 0
          /\ passed' = (passed \/ out.body.position.y < FloorTop)
    /\ frame' = frame + 1
    /\ UNCHANGED <<floor, useCCD, gravityOn, triVars, bvhVars, oneVars, regVars, gridVars, pairVars, clockVars, stepVars, meshVars, nodeVars, genVars, loopVars, pruneVars>>

NextSim == Frame
SpecSim == InitSim /\ [][NextSim]_vars

TunnelRun == ~gravityOn /\ useCCD

\* C1: a sphere of radius 1 falling at 50 units/s with dt = 1/60 onto the
\* floor is collided by the swept path on every step up to its first contact,
\* a contact is resolved no later than the step that brings it within its
\* radius of the top face, and it never ends a step below the top face.
C1_SweptStopsSphere ==
    TunnelRun =>
        /\ ~passed
        /\ sphere.position.y >= FloorTop
        /\ (frame >= 1 /\ contactAge <= 1) => last.path = "swept"
        /\ sphere.position.y < FloorTop + sphere.radius => contactAge >= 1

\* a swept hit part of the way along the step has been resolved
C1_Witness ==
    /\ TunnelRun /\ contactAge = 1
    /\ last.path = "swept" /\ last.contact.hit /\ last.contact.t > 0
    /\ sphere.velocity.y >= 0

\* C7: with restitution 0, once 10 steps have passed since the step of the
\* first contact, the speed along the floor's normal stays below 0.01.
C7_RestingContact ==
    (gravityOn /\ sphere.restitution = 0 /\ contactAge > 10)
        => Abs(DotN(sphere.velocity, Vec(0, Unit, 0))) < Milli(10)

\* a dropped sphere more than 10 steps after its first contact, still in
\* contact
C7_Witness ==
    /\ gravityOn /\ sphere.restitution = 0
    /\ contactAge > 11
    /\ last.contact.hit

(***************************************************************************)
(* One contact: a sphere near the floor's top face and one collision call. *)
(***************************************************************************)
ContactHeights == {Milli(500), Milli(960), Milli(999), Unit, Milli(1005),
                   Milli(1010), Milli(1200)}
ContactVelocities == {Vec(0, 0 - 5 * Unit, 0), Zero3, Vec(0, 0 - Milli(1), 0),
                      Vec(0, Milli(50), 0), Vec(0, Milli(200), 0),
                      Vec(3 * Unit, 0 - 4 * Unit, 0), Vec(Unit, 0 - 5 * Unit, 2 * Unit),
                      Vec(2 * Unit, 0, 0 - Unit)}
\* unit contact normals for a direct call of the resolver
ContactNormals == {Vec(0, Unit, 0), Vec(Unit, 0, 0), Vec(0, 0, 0 - Unit),
                   Vec(Milli(600), Milli(800), 0), Vec(0, 0 - Milli(600), Milli(800))}
ContactDepths == {0, Milli(1), Milli(2), Milli(40), Milli(50), Milli(500)}

InitOne ==
    /\ \E e \in {Milli(500), Unit} : floor = createFloor(e, Unit)
    /\ \E y \in ContactHeights, xz \in {<<0, 0>>, <<Milli(500), 0 - Milli(250)>>},
          v \in ContactVelocities, e \in Restitutions, f \in {0, Unit} :
          sphere = [PhysicsObject(Unit, Vec(xz[1], FloorTop + y, xz[2]), v)
                      EXCEPT !.restitution = e, !.friction = f]
    /\ before = sphere
    /\ op = "none"
    /\ last = NoOutcome
    /\ useCCD = TRUE /\ gravityOn = FALSE /\ frame = 0 /\ contactAge = 0
    /\ passed = FALSE
    /\ IdleTri /\ IdleBvh /\ IdleReg /\ IdleGrid /\ IdlePair /\ IdleClock /\ IdleStep /\ IdleMesh /\ IdleNode /\ IdleGen /\ IdleLoop /\ IdlePrune

OneDone(name, out) ==
    /\ op = "none"
    /\ op' = name
    /\ sphere' = out.body
    /\ last' = [path |-> out.path, contact |-> out.contact]
    /\ UNCHANGED <<before, floor, useCCD, gravityOn, frame, contactAge, passed,
                   triVars, bvhVars, regVars, gridVars, pairVars, clockVars, stepVars, meshVars, nodeVars, genVars, loopVars, pruneVars>>

\* sphere.collideWithTriangleMesh(floor, dt)
CollideMesh == OneDone("mesh", collideWithTriangleMesh(sphere, floor, FrameDt))

\* sphere.bounceOffPlane(point of the top face, (0,1,0), floor.restitution)
CollidePlane ==
    OneDone("plane", bounceOffPlane(sphere, Vec(0, FloorTop, 0), Vec(0, Unit, 0),
                                    floor.restitution))

\* sphere.handleCollisionResponse(contact, floor) for a contact of any normal
Resolve ==
    \E n \in ContactNormals, depth \in ContactDepths :
        LET contact == [hit |-> TRUE, t |-> 0, point |-> Zero3, normal |-> n,
                        penetration |-> depth, triangle |-> 1]
        IN OneDone("resolve",
                   Outcome(handleCollisionResponse(sphere, contact, floor),
                           "resolve", contact))

NextOne == CollideMesh \/ CollidePlane \/ Resolve
SpecOne == InitOne /\ [][NextOne]_vars

\* the velocity along the contact normal before and after the call
VnBefore == DotN(before.velocity, last.contact.normal)
VnAfter == DotN(sphere.velocity, last.contact.normal)
Tangential(v, n) == VSub(v, VScale(n, DotN(v, n)))
CombinedRestitution == Min(before.restitution, floor.restitution)
CombinedFriction == Min(before.friction, floor.friction)
Responded == op \in {"mesh", "resolve"} /\ last.contact.hit

\* the sphere of radius 1 centered 0.5 above the plane of the top face
Overlapping == before.position = Vec(0, FloorTop + Milli(500), 0)

\* C4 (as stated): after one resolve step of the mesh path the center of the
\* overlapping sphere lies at distance radius from the plane.
C4_FullCorrection ==
    (Overlapping /\ op = "mesh")
        => sphere.position = Vec(0, FloorTop + before.radius, 0)

\* C4 (amended): the contact has penetration 0.5, the mesh path moves the
\* center by 0.8 of it to y = 0.9, and the plane collider moves it to y = 1.
C4_DampedCorrection ==
    /\ (Overlapping /\ op = "mesh")
          => /\ last.contact.hit /\ last.contact.penetration = Milli(500)
             /\ sphere.position = Vec(0, FloorTop + Milli(900), 0)
    /\ (Overlapping /\ op = "plane")
          => sphere.position = Vec(0, FloorTop + before.radius, 0)

C4_Witness ==
    /\ Overlapping /\ op = "mesh" /\ last.path = "discrete"
    /\ last.contact.normal = Vec(0, Unit, 0)

Reflected ==
    /\ VnAfter = Mul(0 - VnBefore, CombinedRestitution)
    /\ CombinedFriction = 0
          => Tangential(sphere.velocity, last.contact.normal)
               = Tangential(before.velocity, last.contact.normal)

\* C5 (as stated): whenever the body approaches the surface, the response
\* turns v.n into -e * v.n and, without friction, keeps the tangential part.
C5_ReflectsWhenApproaching == (Responded /\ VnBefore < 0) => Reflected

\* C5 (amended): the velocity is reflected when the body approaches faster
\* than 0.001; a slower approach loses half of its normal velocity when the
\* penetration is below 0.05 and keeps its velocity otherwise.
C5_ReflectsAboveThreshold ==
    /\ (Responded /\ VnBefore < 0 - Milli(1)) => Reflected
    /\ (Responded /\ VnBefore < 0 /\ VnBefore >= 0 - Milli(1))
          => sphere.velocity =
                IF last.contact.penetration < Milli(50)
                THEN VSub(before.velocity,
                          VScale(VScale(last.contact.normal, VnBefore), Milli(500)))
                ELSE before.velocity

\* an oblique approach reflected with restitution 0.5 and no friction
C5_Witness ==
    /\ Responded /\ VnBefore < 0 - Unit
    /\ CombinedRestitution = Milli(500) /\ CombinedFriction = 0
    /\ Tangential(before.velocity, last.contact.normal) # Zero3
    /\ VnAfter > 0

\* C6: with restitution 1 and no friction the response never adds speed,
\* and a bounce (an approach faster than 0.001) keeps the speed.
C6_EnergySanity ==
    (Responded /\ CombinedRestitution = Unit /\ CombinedFriction = 0)
        => /\ LengthSq(sphere.velocity) <= LengthSq(before.velocity)
           /\ VnBefore < 0 - Milli(1)
                 => LengthSq(sphere.velocity) = LengthSq(before.velocity)

\* an oblique elastic bounce off a slanted surface
C6_Witness ==
    /\ Responded /\ CombinedRestitution = Unit /\ CombinedFriction = 0
    /\ VnBefore < 0 - Unit
    /\ sphere.velocity # before.velocity
    /\ last.contact.normal = Vec(Milli(600), Milli(800), 0)

\* the center is exactly one radius above the top face, over its interior
Touching ==
    /\ op = "mesh"
    /\ before.position.y = FloorTop + before.radius

\* C8 (as stated): a sphere exactly at radius distance has zero penetration
\* and is not treated as a collision: position and velocity stay as they were.
C8_BoundaryIsNoCollision ==
    Touching => /\ last.contact.penetration = 0
                /\ ~last.contact.hit
                /\ sphere.position = before.position
                /\ sphere.velocity = before.velocity

\* C8 (amended): the contact is reported with zero penetration; the position
\* stays, and the velocity is reflected for an approach faster than 0.001,
\* loses half of its normal part for a normal velocity from -0.001 up to 0.1,
\* and stays otherwise.
C8_BoundaryIsContact ==
    Touching => /\ last.contact.hit
                /\ last.contact.penetration = 0
                /\ last.contact.normal = Vec(0, Unit, 0)
                /\ sphere.position = before.position
                /\ VnBefore < 0 - Milli(1)
                      => VnAfter = Mul(0 - VnBefore, CombinedRestitution)
                /\ (VnBefore >= 0 - Milli(1) /\ VnBefore < Milli(100))
                      => sphere.velocity =
                            VSub(before.velocity,
                                 VScale(VScale(last.contact.normal, VnBefore), Milli(500)))
                /\ VnBefore >= Milli(100) => sphere.velocity = before.velocity

\* a touching sphere that approached and was turned around
C8_Witness ==
    /\ Touching /\ last.contact.hit /\ last.contact.penetration = 0
    /\ before.velocity.y < 0 - Unit /\ sphere.velocity.y > 0

(***************************************************************************)
(* The tunneling regression: the scenario is run for every starting height *)
(* and restitution, one case after the other.                              *)
(***************************************************************************)
RegFrames == 8

RECURSIVE RunFrames(_, _, _, _, _)
\* k frames from body b; acc records whether a step ended below the top face
\* and whether a contact was resolved
RunFrames(b, mesh, ccd, k, acc) ==
    IF k = 0 THEN acc
    ELSE LET next(out) ==
                 IF out.body.position.y < FloorTop
                 THEN RunFrames(out.body, mesh, ccd, k - 1,
                                [passed |-> TRUE, hit |-> acc.hit \/ out.contact.hit,
                                 body |-> out.body])
                 ELSE RunFrames(out.body, mesh, ccd, k - 1,
                                [passed |-> acc.passed,
                                 hit |-> acc.hit \/ out.contact.hit,
                                 body |-> out.body])
         IN next(FrameStep(b, mesh, ccd, FALSE, FrameDt))

RegRestitutions == <<0, Milli(500), Unit>>
NumCases == (MaxStart + 1) * Len(RegRestitutions)
CaseHeight(c) == StartHeight(c \div Len(RegRestitutions))
CaseRestitution(c) == RegRestitutions[(c % Len(RegRestitutions)) + 1]

InitReg ==
    /\ floor = createFloor(Unit, Unit)
    /\ useCCD \in BOOLEAN
    /\ caseNo = 0 /\ tunnelled = {} /\ caught = {}
    /\ sphere = PhysicsObject(Unit, Zero3, Zero3)
    /\ gravityOn = FALSE /\ frame = 0 /\ last = NoOutcome /\ contactAge = 0
    /\ passed = FALSE
    /\ IdleTri /\ IdleBvh /\ IdleOne /\ IdleGrid /\ IdlePair /\ IdleClock /\ IdleStep /\ IdleMesh /\ IdleNode /\ IdleGen /\ IdleLoop /\ IdlePrune

\* run the next case to its end
RunCase ==
    /\ caseNo < NumCases
    /\ \E start \in {Sphere(CaseHeight(caseNo), 0 - TunnelSpeed,
                              CaseRestitution(caseNo))} :
       \E res \in {RunFrames(start, floor, useCCD, RegFrames,
                             [passed |-> FALSE, hit |-> FALSE, body |-> start])} :
          /\ tunnelled' = IF res.passed THEN tunnelled \cup {caseNo} ELSE tunnelled
          /\ caught' = IF res.hit THEN caught \cup {caseNo} ELSE caught
          /\ sphere' = res.body
    /\ caseNo' = caseNo + 1
    /\ UNCHANGED <<floor, useCCD, gravityOn, frame, last, contactAge, passed,
                   triVars, bvhVars, oneVars, gridVars, pairVars, clockVars, stepVars, meshVars, nodeVars, genVars, loopVars, pruneVars>>

NextReg == RunCase
SpecReg == InitReg /\ [][NextReg]_vars

AllCasesRun == caseNo = NumCases

\* C10 (as stated): with discreteCollision on every step, some run of the
\* scenario lets the sphere end a step beyond the floor's top face.
C10_DiscreteTunnels == (~useCCD /\ AllCasesRun) => tunnelled # {}

\* C10 (amended): with discreteCollision on every step no run of the
\* scenario passes the top face, and every run resolves a contact.
C10_DiscreteCatches ==
    ~useCCD => /\ tunnelled = {}
               /\ caught = 0..(caseNo - 1)

C10_Witness == ~useCCD /\ AllCasesRun /\ caught # {} /\ sphere.velocity.y >= 0

(***************************************************************************)
(* SpatialHashGrid over the static colliders of the floor manager.         *)
(***************************************************************************)
CellSize == 4

\* Math.floor(x / cellSize)
CellOf(x) == IF x >= 0 THEN x \div CellSize ELSE 0 - ((CellSize - 1 - x) \div CellSize)

\* the cells a box overlaps
CellsOfBox(box) ==
    {<<i, j, k>> : i \in CellOf(box.min.x)..CellOf(box.max.x),
                   j \in CellOf(box.min.y)..CellOf(box.max.y),
                   k \in CellOf(box.min.z)..CellOf(box.max.z)}

\* the space a cell covers
CellBox(c) ==
    AABB(Vec(c[1] * CellSize, c[2] * CellSize, c[3] * CellSize),
         Vec((c[1] + 1) * CellSize, (c[2] + 1) * CellSize, (c[3] + 1) * CellSize))

\* the cells that overlap the sphere of the given radius around point
CellsOfSphere(point, radius) ==
    {c \in CellsOfBox(AABB(Vec(point.x - radius, point.y - radius, point.z - radius),
                           Vec(point.x + radius, point.y + radius, point.z + radius))) :
        intersectsSphere(CellBox(c), point, radius)}

RECURSIVE addToCells(_, _, _)
\* the object's reference is added to each of the cells
addToCells(g, cells, object) ==
    IF cells = {} THEN g
    ELSE LET c == CHOOSE x \in cells : TRUE
         IN IF c \in DOMAIN g
            THEN addToCells([g EXCEPT ![c] = @ \cup {object}], cells \ {c}, object)
            ELSE addToCells(g @@ (c :> {object}), cells \ {c}, object)

\* insert(object, aabb)
insert(g, object, aabb) == addToCells(g, CellsOfBox(aabb), object)

RECURSIVE rebuild(_, _)
\* rebuild(allObjects): from the cleared grid g, insert every object
rebuild(g, allObjects) ==
    IF allObjects = {} THEN g
    ELSE LET o == CHOOSE x \in allObjects : TRUE
         IN rebuild(insert(g, o.id, o.aabb), allObjects \ {o})

RECURSIVE addAll(_, _)
\* every reference of a cell is added to the result unless it is in it already
addAll(result, refs) ==
    IF refs = {} THEN result
    ELSE LET o == CHOOSE x \in refs : TRUE
         IN IF \E i \in 1..Len(result) : result[i] = o
            THEN addAll(result, refs \ {o})
            ELSE addAll(Append(result, o), refs \ {o})

RECURSIVE collect(_, _, _)
\* the contents of the cells, each of which the grid holds, added to the result
collect(g, cells, result) ==
    IF cells = {} THEN result
    ELSE LET c == CHOOSE x \in cells : TRUE
         IN collect(g, cells \ {c}, addAll(result, g[c]))

\* a query that looks only into the cell of the point itself
queryNearby_OwnCell(g, point, radius) ==
    collect(g, {<<CellOf(point.x), CellOf(point.y), CellOf(point.z)>>} \cap DOMAIN g,
            <<>>)

\* queryNearby(point, radius): a cell the grid does not hold is empty
queryNearby(g, point, radius) ==
    collect(g, CellsOfSphere(point, radius) \cap DOMAIN g, <<>>)

MaxColliders == 3

Collider(id, min, max) == [id |-> id, aabb |-> AABB(min, max)]
\* the colliders that can be added: tiles inside one cell, on a cell border,
\* at negative coordinates, and slabs that span several cells
ColliderPool ==
    {Collider(1, Vec(0, 0, 0), Vec(3, 0, 3)),
     Collider(2, Vec(2, 0, 1), Vec(9, 1, 2)),
     Collider(3, Vec(0 - 6, 0, 0 - 6), Vec(0 - 5, 0, 0 - 5)),
     Collider(4, Vec(0 - 4, 0 - 1, 0 - 4), Vec(7, 0, 7)),
     Collider(5, Vec(4, 8, 4), Vec(4, 9, 8)),
     Collider(6, Vec(0 - 1, 3, 5), Vec(0, 4, 6))}
QueryPoints == {Vec(1, 0, 1), Vec(5, 1, 5), Vec(0 - 5, 0, 0 - 3), Vec(4, 4, 4),
                Vec(10, 9, 1)}
QueryRanges == {1, 3, 6}

InitGrid ==
    /\ floors = {} /\ grid = <<>> /\ gridDirty = FALSE /\ nearby = NoNearby
    /\ IdleTri /\ IdleBvh /\ IdleSim /\ IdleOne /\ IdleReg /\ IdlePair /\ IdleClock /\ IdleStep /\ IdleMesh /\ IdleNode /\ IdleGen /\ IdleLoop /\ IdlePrune

\* a collider is added: the grid is marked dirty
AddFloor ==
    /\ Cardinality(floors) < MaxColliders
    /\ \E o \in ColliderPool \ floors : floors' = floors \cup {o}
    /\ gridDirty' = TRUE
    /\ nearby' = NoNearby
    /\ UNCHANGED <<grid, triVars, bvhVars, simVars, oneVars, regVars, pairVars, clockVars, stepVars, meshVars, nodeVars, genVars, loopVars, pruneVars>>

\* a collider is removed: the grid is marked dirty
RemoveFloor ==
    /\ \E o \in floors : floors' = floors \ {o}
    /\ gridDirty' = TRUE
    /\ nearby' = NoNearby
    /\ UNCHANGED <<grid, triVars, bvhVars, simVars, oneVars, regVars, pairVars, clockVars, stepVars, meshVars, nodeVars, genVars, loopVars, pruneVars>>

\* the dirty grid is cleared and every collider inserted again
RebuildGrid ==
    /\ gridDirty
    /\ grid' = rebuild(<<>>, floors)
    /\ gridDirty' = FALSE
    /\ nearby' = NoNearby
    /\ UNCHANGED <<floors, triVars, bvhVars, simVars, oneVars, regVars, pairVars, clockVars, stepVars, meshVars, nodeVars, genVars, loopVars, pruneVars>>

\* spatialGrid.queryNearby(point, radius) on the rebuilt grid
QueryNearby ==
    /\ ~gridDirty
    /\ \E point \in QueryPoints, radius \in QueryRanges :
          nearby' = [done |-> TRUE, point |-> point, radius |-> radius,
                     result |-> queryNearby(grid, point, radius)]
    /\ UNCHANGED <<floors, grid, gridDirty, triVars, bvhVars, simVars, oneVars, regVars, pairVars, clockVars, stepVars, meshVars, nodeVars, genVars, loopVars, pruneVars>>

NextGrid == AddFloor \/ RemoveFloor \/ RebuildGrid \/ QueryNearby
SpecGrid == InitGrid /\ [][NextGrid]_vars

\* the colliders a linear scan finds within the radius of the point
LinearScan(point, radius) ==
    {o.id : o \in {f \in floors : intersectsSphere(f.aabb, point, radius)}}

\* C9: with every collider inserted, queryNearby returns each collider a
\* linear scan finds within r of the point, and returns none twice.
C9_NoMissedFloors ==
    nearby.done =>
        /\ LinearScan(nearby.point, nearby.radius)
              \subseteq {nearby.result[i] : i \in 1..Len(nearby.result)}
        /\ \A i, j \in 1..Len(nearby.result) :
              nearby.result[i] = nearby.result[j] => i = j

\* a collider that spans several cells is found from a cell other than the
\* one that holds its first corner, next to a collider out of range
C9_Witness ==
    /\ nearby.done
    /\ \E f \in floors :
          /\ Cardinality(CellsOfBox(f.aabb)) > 1
          /\ f.id \in LinearScan(nearby.point, nearby.radius)
          /\ CellOf(nearby.point.x) # CellOf(f.aabb.min.x)
    /\ \E f \in floors : f.id \notin LinearScan(nearby.point, nearby.radius)
    /\ Len(nearby.result) >= 2

(***************************************************************************)
(* Sphere-sphere and sphere-box colliders (physics.js)                     *)
(***************************************************************************)
\* 1 / mass and 1 / momentOfInertia as the colliders compute them
InvMass(b) == IF b.isStatic THEN 0 ELSE FDiv(Unit, b.mass)
InvInertia(b) ==
    IF b.momentOfInertia = Infinity \/ b.momentOfInertia = 0 THEN 0
    ELSE FDiv(Unit, b.momentOfInertia)
\* lengthSq() of a fixed-point vector, as a fixed-point number
LengthSqN(a) == RoundDiv(LengthSq(a), Unit)
\* THREE.MathUtils.clamp(value, min, max)
ClampTo(value, lo, hi) == Max(lo, Min(hi, value))
\* (x || 1) for a fixed-point x
OrOne(x) == IF x = 0 THEN Unit ELSE x

\* constructor of physics.js: a unit box collider around the body, restitution
\* 0.7 and friction 0.3; the mesh is not rotated
BoxObject(mass, position, velocity) ==
    [width |-> Unit, height |-> Unit, depth |-> Unit]
    @@ [PhysicsObject(mass, position, velocity) EXCEPT !.restitution = Milli(700),
                                                       !.friction = Milli(300)]

\* the two bodies of a collider call, and whether the call threw
Pair(a, o, exception) == [this |-> a, other |-> o, threw |-> exception]

\* v += impulse * invMass; angularVelocity += (r x impulse) * invI, unless static
pushed(b, r, impulse, invMass, invI) ==
    IF b.isStatic THEN b
    ELSE [b EXCEPT !.velocity = VAddScaled(b.velocity, impulse, invMass),
                   !.angularVelocity =
                       VAdd(b.angularVelocity, VScale(CrossN(r, impulse), invI))]

\* the friction impulse of both colliders, for the bodies after the normal
\* impulse j, the relative velocity before it and the friction bound
frictionImpulse(a, o, ra, rb, normal, relativeVelocity, maxFriction) ==
    LET tangent0 == VSub(relativeVelocity,
                         VScale(normal, DotN(relativeVelocity, normal)))
        slide(tangent) ==
            LET angularTermT == Mul(LengthSqN(CrossN(ra, tangent)), InvInertia(a))
                                + Mul(LengthSqN(CrossN(rb, tangent)), InvInertia(o))
                invEffMassT == OrOne(InvMass(a) + InvMass(o) + angularTermT)
                jt == FDiv(0 - DotN(relativeVelocity, tangent), invEffMassT)
                scalar == ClampTo(jt, 0 - Abs(maxFriction), Abs(maxFriction))
                impulse == VScale(tangent, scalar)
            IN Pair(pushed(a, ra, impulse, InvMass(a), InvInertia(a)),
                    pushed(o, rb, VScale(impulse, 0 - Unit), InvMass(o), InvInertia(o)),
                    FALSE)
    \* tLen > 1e-6: above zero at the model's resolution
    IN IF Length(tangent0) > 0 THEN slide(Normalize(tangent0)) ELSE Pair(a, o, FALSE)

\* resolveCollision from the position correction on, for the unit normal and
\* the distance of the centers
resolveAlong(a, o, normal, dist) ==
    LET penetration == (a.radius + o.radius) - dist
        slop == Milli(1)
        percent == Milli(800)
        invMassA == InvMass(a)
        invMassB == InvMass(o)
        invSum == invMassA + invMassB
        corrects == penetration > slop /\ invSum > 0
        correction == VScale(normal, Mul(FDiv(penetration - slop, invSum), percent))
        a1 == IF corrects /\ ~a.isStatic
              THEN [a EXCEPT !.position = VAddScaled(a.position, correction, invMassA)]
              ELSE a
        o1 == IF corrects /\ ~o.isStatic
              THEN [o EXCEPT !.position = VAddScaled(o.position, correction, 0 - invMassB)]
              ELSE o
        ra == VScale(normal, 0 - a.radius)
        rb == VScale(normal, o.radius)
        velA == VAdd(a.velocity, CrossN(a.angularVelocity, ra))
        velB == VAdd(o.velocity, CrossN(o.angularVelocity, rb))
        relativeVelocity == VSub(velA, velB)
        velAlongNormal == DotN(relativeVelocity, normal)
        restitution == Min(a.restitution, o.restitution)
        angularTerm == Mul(LengthSqN(CrossN(ra, normal)), InvInertia(a))
                       + Mul(LengthSqN(CrossN(rb, normal)), InvInertia(o))
        invEffectiveMass == invMassA + invMassB + angularTerm
        j == FDiv(Mul(0 - (Unit + restitution), velAlongNormal), invEffectiveMass)
        impulse == VScale(normal, j)
    IN IF velAlongNormal > 0 \/ invEffectiveMass = 0 THEN Pair(a1, o1, FALSE)
       ELSE frictionImpulse(pushed(a1, ra, impulse, invMassA, InvInertia(a)),
                            pushed(o1, rb, VScale(impulse, 0 - Unit), invMassB,
                                   InvInertia(o)),
                            ra, rb, normal, relativeVelocity,
                            Mul(Min(a.friction, o.friction), j))

\* this.resolveCollision(other).  With coincident centers the fallback
\* assigns to the constant dist (line 111): the call throws a TypeError
\* before either body is touched.
resolveBodies(a, o) ==
    LET normal == VSub(a.position, o.position)
        along(dist) ==
            IF dist = 0 THEN Pair(a, o, TRUE)
            ELSE resolveAlong(a, o, Normalize(normal), dist)
    IN IF a.isStatic /\ o.isStatic THEN Pair(a, o, FALSE)
       ELSE along(Length(normal))

\* a resolveCollision that treats a static body as a body of mass 1
resolveCollision_Dynamic(a, o) ==
    LET dynamic(b) == IF b.isStatic
                      THEN [b EXCEPT !.isStatic = FALSE, !.mass = Unit,
                                     !.momentOfInertia = RoundDiv(2 * Unit, 5)]
                      ELSE b
        restored(b, was) == [b EXCEPT !.isStatic = was.isStatic, !.mass = was.mass,
                                      !.momentOfInertia = was.momentOfInertia]
        back(out) == Pair(restored(out.this, a), restored(out.other, o), out.threw)
    IN back(resolveBodies(dynamic(a), dynamic(o)))

resolveCollision(a, o) == resolveBodies(a, o)

\* checkCollision(other)
checkCollision(a, o) == Dist(a.position, o.position) < a.radius + o.radius

\* box.collideSphereBox(sphere) from the position correction on, for the
\* closest point of the box, the contact normal and the distance
collideAlong(box, sph, closestWorld, normal, dist) ==
    LET penetration == sph.radius - dist
        invMassA == InvMass(sph)
        invMassB == InvMass(box)
        invSum == invMassA + invMassB
        percent == Milli(800)
        slop == Milli(1)
        correctionMagnitude == Mul(FDiv(Max(penetration - slop, 0), invSum), percent)
        correction == VScale(normal, correctionMagnitude)
        sph1 == IF sph.isStatic THEN sph
                   ELSE [sph EXCEPT !.position =
                            VAddScaled(sph.position, correction, invMassA)]
        box1 == IF box.isStatic THEN box
                ELSE [box EXCEPT !.position =
                         VAddScaled(box.position, correction, 0 - invMassB)]
        ra == VSub(closestWorld, sph1.position)
        rb == VSub(closestWorld, box1.position)
        velA == VAdd(sph.velocity, CrossN(sph.angularVelocity, ra))
        velB == VAdd(box.velocity, CrossN(box.angularVelocity, rb))
        relativeVel == VSub(velA, velB)
        velAlongNormal == DotN(relativeVel, normal)
        e == Min(sph.restitution, box.restitution)
        angularTerm == Mul(LengthSqN(CrossN(ra, normal)), InvInertia(sph))
                       + Mul(LengthSqN(CrossN(rb, normal)), InvInertia(box))
        invEffectiveMass == invMassA + invMassB + angularTerm
        j == FDiv(Mul(0 - (Unit + e), velAlongNormal), invEffectiveMass)
        impulse == VScale(normal, j)
        swap(out) == Pair(out.other, out.this, FALSE)
    IN IF penetration <= 0 \/ invSum = 0 THEN Pair(box, sph, FALSE)
       ELSE IF invEffectiveMass = 0 \/ (velAlongNormal > 0 /\ penetration < slop)
       THEN Pair(box1, sph1, FALSE)
       ELSE swap(frictionImpulse(
                     pushed(sph1, ra, impulse, invMassA, InvInertia(sph)),
                     pushed(box1, rb, VScale(impulse, 0 - Unit), invMassB,
                            InvInertia(box)),
                     ra, rb, normal, relativeVel,
                     Mul(Abs(j), Min(sph.friction, box.friction))))

\* box.collideSphereBox(sphere), for a box that is not rotated
collideSphereBox(box, sph) ==
    LET localSpherePos == VSub(sph.position, box.position)
        hx == RoundDiv(box.width, 2)
        hy == RoundDiv(box.height, 2)
        hz == RoundDiv(box.depth, 2)
        closestLocal == Vec(ClampTo(localSpherePos.x, 0 - hx, hx),
                            ClampTo(localSpherePos.y, 0 - hy, hy),
                            ClampTo(localSpherePos.z, 0 - hz, hz))
        closestWorld == VAdd(closestLocal, box.position)
        diff == VSub(sph.position, closestWorld)
        dx == Abs(localSpherePos.x) - hx
        dy == Abs(localSpherePos.y) - hy
        dz == Abs(localSpherePos.z) - hz
        \* the center lies in the box: the face normal of the largest excess
        faceNormal == IF dx >= dy /\ dx >= dz
                      THEN Vec(Sign(localSpherePos.x) * Unit, 0, 0)
                      ELSE IF dy >= dx /\ dy >= dz
                      THEN Vec(0, Sign(localSpherePos.y) * Unit, 0)
                      ELSE Vec(0, 0, Sign(localSpherePos.z) * Unit)
        contact(dist) ==
            IF dist >= sph.radius THEN Pair(box, sph, FALSE)
            \* dist > 1e-6: above zero at the model's resolution
            ELSE collideAlong(box, sph, closestWorld,
                              IF dist > 0 THEN Normalize(diff) ELSE faceNormal, dist)
    IN contact(Length(diff))

(***************************************************************************)
(* Two bodies: body a is static (mass 0) or dynamic, body b is dynamic.    *)
(* Forces, torques, integration steps and collider calls are made on them  *)
(* in any order.  An uncaught exception ends the frame loop.               *)
(***************************************************************************)
MaxCalls == 3

PairMasses == {0, Unit}
PairPositions == {Zero3, Vec(0, Milli(1200), 0), Vec(Milli(900), Milli(1200), 0),
                  Vec(0, 3 * Unit, 0)}
PairVelocities == {Vec(0, 0 - 2 * Unit, 0), Vec(Unit, Unit, 0)}
PairForce == Vec(0, gravity, 0)
PairTorque == Vec(0, 0, Unit)
PairDt == [n |-> 1, d |-> 60]
Names == {"a", "b"}

InitPair ==
    /\ \E mass \in PairMasses, position \in PairPositions, velocity \in PairVelocities :
          bodies = [a |-> BoxObject(mass, Zero3, Zero3),
                    b |-> BoxObject(Unit, position, velocity)]
    /\ threw = FALSE
    /\ call = NoCall
    /\ IdleTri /\ IdleBvh /\ IdleSim /\ IdleOne /\ IdleReg /\ IdleGrid /\ IdleClock /\ IdleStep /\ IdleMesh /\ IdleNode /\ IdleGen /\ IdleLoop /\ IdlePrune

\* the bookkeeping of every call: its name, the body it was made on
Called(name, on) ==
    /\ ~threw
    /\ call.n < MaxCalls
    /\ call' = [name |-> name, on |-> on, n |-> call.n + 1]
    /\ UNCHANGED <<triVars, bvhVars, simVars, oneVars, regVars, gridVars, clockVars, stepVars, meshVars, nodeVars, genVars, loopVars, pruneVars>>

ApplyForce ==
    \E who \in Names :
        /\ Called("applyForce", who)
        /\ bodies' = [bodies EXCEPT ![who] = applyForce(@, PairForce)]
        /\ UNCHANGED threw

ApplyTorque ==
    \E who \in Names :
        /\ Called("applyTorque", who)
        /\ bodies' = [bodies EXCEPT ![who] = applyTorque(@, PairTorque)]
        /\ UNCHANGED threw

Update ==
    \E who \in Names :
        /\ Called("update", who)
        /\ bodies' = [bodies EXCEPT ![who] = update(@, PairDt)]
        /\ UNCHANGED threw

\* one pair of handleSphereSphereCollisions
SphereSphere ==
    \E who \in Names, with \in Names :
        /\ who # with
        /\ Called("resolveCollision", who)
        /\ \E out \in {IF checkCollision(bodies[who], bodies[with])
                       THEN resolveCollision(bodies[who], bodies[with])
                       ELSE Pair(bodies[who], bodies[with], FALSE)} :
              /\ bodies' = [bodies EXCEPT ![who] = out.this, ![with] = out.other]
              /\ threw' = out.threw

\* floor.bounceBox(sphere): body a as the box, body b as the sphere
SphereBox ==
    /\ Called("collideSphereBox", "a")
    /\ \E out \in {collideSphereBox(bodies.a, bodies.b)} :
          bodies' = [bodies EXCEPT !.a = out.this, !.b = out.other]
    /\ UNCHANGED threw

NextPair == ApplyForce \/ ApplyTorque \/ Update \/ SphereSphere \/ SphereBox
SpecPair == InitPair /\ [][NextPair]_vars

C12_ForcesActOnce ==
    [][call'.name = "update" /\ ~bodies'[call'.on].isStatic =>
          /\ bodies'[call'.on].acceleration = Zero3
          /\ bodies'[call'.on].angularAcceleration = Zero3
          /\ (call.name = "update" /\ call.on = call'.on =>
                /\ bodies'[call'.on].velocity = bodies[call.on].velocity
                /\ bodies'[call'.on].angularVelocity = bodies[call.on].angularVelocity)
      ]_vars

\* a force and a torque were applied to body b and two updates followed
C12_Witness ==
    /\ call.name = "update" /\ call.on = "b" /\ call.n = 3
    /\ bodies.b.angularVelocity = ScaleDt(applyTorque(bodies.b, PairTorque).angularAcceleration,
                                          PairDt)
    /\ bodies.b.acceleration = Zero3 /\ bodies.b.angularAcceleration = Zero3

\* C14: no collider call ends in an uncaught exception; in particular
\* resolveCollision on two spheres with coincident centers does not throw.
C14_NoFatalError == ~threw

(***************************************************************************)
(* The frame loop (setup.js): the scheduler calls Setup.update with the    *)
(* current time in milliseconds; no key is pressed.                        *)
(***************************************************************************)
MaxTicks == 3

\* a step that is not clamped
clampedDt_Raw(dt) == dt

\* Math.min(dt, 0.033), in milliseconds
clampedDt(dt) == Min(dt, 33)

\* milliseconds between two calls of the scheduler: a fast frame, 60 Hz,
\* 30 Hz, a slow frame, a stall, a tab that was in the background
Intervals == {8, 16, 17, 33, 34, 250, 5000}

InitClock ==
    /\ lastTime = 0 /\ rawDt = 0 /\ stepDt = 0
    /\ floor = createFloor(Unit, Unit)
    /\ sphere = Sphere(Milli(1500), 0, 0)
    /\ useCCD = TRUE /\ gravityOn = TRUE
    /\ frame = 0 /\ last = NoOutcome /\ contactAge = 0 /\ passed = FALSE
    /\ IdleTri /\ IdleBvh /\ IdleOne /\ IdleReg /\ IdleGrid /\ IdlePair /\ IdleStep /\ IdleMesh /\ IdleNode /\ IdleGen /\ IdleLoop /\ IdlePrune

\* Setup.update(currentTime)
SetupUpdate ==
    /\ frame < MaxTicks
    /\ \E elapsed \in Intervals :
         \E currentTime \in {lastTime + elapsed} :
           /\ rawDt' = currentTime - lastTime
           /\ lastTime' = currentTime
           /\ stepDt' = clampedDt(currentTime - lastTime)
    /\ \E out \in {FrameStep(sphere, floor, useCCD, gravityOn,
                              [n |-> stepDt', d |-> 1000])} :
          /\ sphere' = out.body
          /\ last' = [path |-> out.path, contact |-> out.contact]
          /\ contactAge' = IF contactAge > 0 THEN contactAge + 1
                           ELSE IF out.contact.hit THEN 1 ELSE 0
          /\ passed' = (passed \/ out.body.position.y < FloorTop)
    /\ frame' = frame + 1
    /\ UNCHANGED <<floor, useCCD, gravityOn,
                   triVars, bvhVars, oneVars, regVars, gridVars, pairVars, stepVars, meshVars, nodeVars, genVars, loopVars, pruneVars>>

NextClock == SetupUpdate
SpecClock == InitClock /\ [][NextClock]_vars

\* what a frame with a step of ms milliseconds makes of body b before the
\* collision phase
Integrated(b, ms) == update(applyGravity(b), [n |-> ms, d |-> 1000])

\* C13: the step used by a frame is at most 0.033 s, however long the
\* interval since the previous frame; the sphere never falls further in a
\* frame than gravity takes it in 0.033 s.
C13_StepClamped ==
    /\ [](stepDt <= 33)
    /\ [][sphere'.position.y >= Integrated(sphere, 33).position.y]_vars

\* a frame came 5 s after the previous one and used a step of 0.033 s
C13_Witness == frame > 0 /\ rawDt = 5000 /\ stepDt = 33

(***************************************************************************)
(* A static collider without triangles: created from an empty geometry,    *)
(* or rebuilt after its geometry was emptied.                              *)
(***************************************************************************)
MaxCollides == 2

EmptyHeights == {0 - Milli(500), Milli(300), Unit, Milli(1500)}
EmptyVelocities == {Zero3, Vec(0, 0 - Unit, 0), Vec(0, 0 - TunnelSpeed, 0),
                    Vec(3 * Unit, 0 - 40 * Unit, 0), Vec(0, 2 * Unit, 0),
                    Vec(Unit, 0, 0 - Unit)}

\* createFloor with a geometry that has no triangles
createEmptyFloor(restitution, friction) ==
    buildTriangleMesh(
        [PhysicsObject(0, Vec(0, FloorTop - RoundDiv(FloorThickness, 2), 0), Zero3)
            EXCEPT !.restitution = restitution, !.friction = friction],
        <<>>)

InitEmpty ==
    /\ floor \in {createEmptyFloor(Unit, Unit), createFloor(Unit, Unit)}
    /\ \E y \in EmptyHeights, v \in EmptyVelocities :
          sphere = [Sphere(y, 0, Milli(500)) EXCEPT !.velocity = v,
                                                   !.angularVelocity = Vec(0, 0, Unit)]
    /\ before = sphere
    /\ op = "none" /\ frame = 0 /\ last = NoOutcome
    /\ useCCD = TRUE /\ gravityOn = FALSE /\ contactAge = 0 /\ passed = FALSE
    /\ IdleTri /\ IdleBvh /\ IdleReg /\ IdleGrid /\ IdlePair /\ IdleClock /\ IdleStep /\ IdleMesh /\ IdleNode /\ IdleGen /\ IdleLoop /\ IdlePrune

\* the floor's geometry is replaced by an empty one
EmptyGeometry ==
    /\ Len(floor.triangles) > 0
    /\ floor' = rebuildCollisionMesh(floor, <<>>)
    /\ op' = "rebuildCollisionMesh"
    /\ UNCHANGED <<sphere, before, last, frame, useCCD, gravityOn, contactAge, passed,
                   triVars, bvhVars, regVars, gridVars, pairVars, clockVars, stepVars, meshVars, nodeVars, genVars, loopVars, pruneVars>>

\* sphere.collideWithTriangleMesh(floor, dt)
CollideFloor ==
    /\ frame < MaxCollides
    /\ \E out \in {collideWithTriangleMesh(sphere, floor, FrameDt)} :
          /\ sphere' = out.body
          /\ last' = [path |-> out.path, contact |-> out.contact]
    /\ before' = sphere
    /\ op' = "collideWithTriangleMesh"
    /\ frame' = frame + 1
    /\ UNCHANGED <<floor, useCCD, gravityOn, contactAge, passed,
                   triVars, bvhVars, regVars, gridVars, pairVars, clockVars, stepVars, meshVars, nodeVars, genVars, loopVars, pruneVars>>

NextEmpty == EmptyGeometry \/ CollideFloor
SpecEmpty == InitEmpty /\ [][NextEmpty]_vars

\* C15: a static collider without triangles has no BVH, and a sphere
\* collided with it gets no contact and keeps its position, velocity and
\* angular velocity.
C15_EmptyMeshInert ==
    Len(floor.triangles) = 0 =>
        /\ ~floor.bvhBuilt /\ floor.bvh = NoMeshBvh
        /\ op = "collideWithTriangleMesh" =>
              /\ ~last.contact.hit
              /\ sphere.position = before.position
              /\ sphere.velocity = before.velocity
              /\ sphere.angularVelocity = before.angularVelocity

\* a fast sphere inside the volume the emptied floor used to fill was
\* collided with it
C15_Witness ==
    /\ Len(floor.triangles) = 0 /\ op = "collideWithTriangleMesh" /\ frame = 2
    /\ sphere.position.y < FloorTop
    /\ sphere.velocity.y = 0 - TunnelSpeed

(***************************************************************************)
(* The swept test on a floor with a wall: a quad in the plane y = 0 facing *)
(* up and a quad in the plane x = WallX facing the origin.  A sphere is    *)
(* swept against one triangle, or collided with the whole mesh.            *)
(***************************************************************************)
WallX == Milli(1200)

\* the two triangles of the quad a, b, c, d, numbered from id
Quad(id, a, b, c, d) == <<Triangle(id, a, b, c), Triangle(id + 1, a, c, d)>>

FloorAndWall ==
    LET w == 4 * Unit
        body == [PhysicsObject(0, Zero3, Zero3) EXCEPT !.restitution = Unit]
    IN buildTriangleMesh(body,
          Quad(1, Vec(0 - w, 0, 0 - w), Vec(0 - w, 0, w), Vec(w, 0, w), Vec(w, 0, 0 - w))
          \o Quad(3, Vec(WallX, 0, 0 - w), Vec(WallX, 0, w), Vec(WallX, w, w),
                  Vec(WallX, w, 0 - w)))

\* centers above the floor (clear of it, touching, overlapping), below it and
\* beyond the wall; velocities toward and away from both quads, one of them
\* slow
SweepCenters == {Vec(0, 2 * Unit, 0), Vec(0, Milli(1838), 0), Vec(0, Milli(1300), 0), Vec(0, Milli(1500), 0),
                 Vec(0, Unit, 0), Vec(0, Milli(900), 0), Vec(0, 0 - Milli(1500), 0),
                 Vec(Milli(2500), Milli(1500), 0), Vec(0 - Unit, 3 * Unit, Unit)}
SweepVelocities == {Vec(0, 0 - TunnelSpeed, 0), Vec(0, TunnelSpeed, 0),
                    Vec(40 * Unit, 0 - 40 * Unit, 0), Vec(TunnelSpeed, 0, 0),
                    Vec(0 - TunnelSpeed, 0, 0), Vec(30 * Unit, 0 - 40 * Unit, 0),
                    Vec(0 - 30 * Unit, 40 * Unit, 0), Vec(0, 0 - 20 * Unit, 0),
                    Vec(0, 0 - 60 * Unit, 0)}

InitSweep ==
    /\ floor = FloorAndWall
    /\ \E c \in SweepCenters, v \in SweepVelocities, e \in {0, Unit} :
          sphere = [PhysicsObject(Unit, c, v) EXCEPT !.restitution = e]
    /\ before = sphere
    /\ op = "none" /\ last = NoOutcome /\ tri = NoTri
    /\ pt = Zero3 /\ cp = NoBary
    /\ useCCD = TRUE /\ gravityOn = FALSE /\ frame = 0 /\ contactAge = 0
    /\ passed = FALSE
    /\ IdleBvh /\ IdleReg /\ IdleGrid /\ IdlePair /\ IdleClock /\ IdleStep /\ IdleMesh /\ IdleNode /\ IdleGen /\ IdleLoop /\ IdlePrune

\* the arguments sweptCollision passes on for body b
SweepDisplacement(b) == ScaleDt(b.velocity, FrameDt)
SweepDirection(b) == Normalize(SweepDisplacement(b))
SweepDistance(b) == Length(SweepDisplacement(b))

\* this.sweepSphereTriangle(startPos, direction, distance, tri) for one
\* triangle of the mesh
SweepTriangle ==
    /\ op = "none"
    /\ \E i \in 1..Len(floor.triangles) :
          /\ tri' = floor.triangles[i]
          /\ last' = [path |-> "triangle",
                      contact |-> sweepSphereTriangle(sphere, sphere.position,
                                                      SweepDirection(sphere),
                                                      SweepDistance(sphere),
                                                      floor.triangles[i])]
    /\ op' = "sweepSphereTriangle"
    /\ UNCHANGED <<sphere, before, floor, pt, cp, useCCD, gravityOn, frame, contactAge,
                   passed, bvhVars, regVars, gridVars, pairVars, clockVars, stepVars, meshVars, nodeVars, genVars, loopVars, pruneVars>>

\* sphere.collideWithTriangleMesh(floor, dt)
SweepMesh ==
    /\ op = "none"
    /\ \E out \in {collideWithTriangleMesh(sphere, floor, FrameDt)} :
          /\ sphere' = out.body
          /\ last' = [path |-> out.path, contact |-> out.contact]
    /\ op' = "collideWithTriangleMesh"
    /\ UNCHANGED <<before, floor, tri, pt, cp, useCCD, gravityOn, frame, contactAge,
                   passed, bvhVars, regVars, gridVars, pairVars, clockVars, stepVars, meshVars, nodeVars, genVars, loopVars, pruneVars>>

NextSweep == SweepTriangle \/ SweepMesh
SpecSweep == InitSweep /\ [][NextSweep]_vars

\* C16: every contact handed to the resolver, from the discrete or from the
\* swept path, has a penetration depth of at least 0.
C16_PenetrationNonNegative == last.contact.hit => last.contact.penetration >= 0

\* the hits of the candidate triangles of the sweep of body b over one step
SweepHits(b) ==
    LET candidates == sweepCandidates(b, floor, SweepDisplacement(b))
        hitOf(i) == sweepSphereTriangle(b, b.position, SweepDirection(b),
                                        SweepDistance(b), candidates[i])
    IN {h \in {hitOf(i) : i \in 1..Len(candidates)} : h.hit}

\* C17: in sweptCollision, whenever a candidate triangle yields a hit with
\* t in [0, 1], a contact is resolved, and it is the one with the smallest t
\* among all candidates.
C17_EarliestHitResolved ==
    op = "collideWithTriangleMesh" /\ last.path = "swept" /\ SweepHits(before) # {}
    => /\ last.contact.hit
       /\ \A h \in SweepHits(before) : last.contact.t <= h.t

\* the triangle under test faces away from the travel of the body swept
MovingAwayFromTri == DotN(SweepDirection(before), tri.normal) >= 0

\* the distance from the start of the sweep to the triangle under test
StartDist == Dist(before.position, closestPointToPoint(tri, before.position))

\* C18 as stated: a triangle the body is moving away from never produces a
\* swept hit, whatever the body's start position.
C18_CulledAlways ==
    op = "sweepSphereTriangle" /\ MovingAwayFromTri => ~last.contact.hit

\* C18: a triangle the body is moving away from never produces a swept hit,
\* provided the body does not already overlap the triangle at the start of
\* the sweep.
C18_CulledUnlessOverlapping ==
    op = "sweepSphereTriangle" /\ MovingAwayFromTri /\ StartDist >= before.radius
    => ~last.contact.hit

\* a body behind a triangle travels toward its back within reach of it
C18_Witness ==
    /\ op = "sweepSphereTriangle" /\ ~last.contact.hit
    /\ DotN(SweepDirection(before), tri.normal) > 0
    /\ StartDist >= before.radius
    /\ StartDist <= before.radius + SweepDistance(before) \div 2

\* the body does not approach the surface of the contact resolved
NotApproaching == op # "none" /\ last.contact.hit /\ VnBefore >= 0

\* a separating contact that handleCollisionResponse treats as resting:
\* normal velocity below 0.1 and penetration below 0.05
RestingSeparation ==
    /\ op \in {"mesh", "resolve"}
    /\ VnBefore > 0 /\ VnBefore < Milli(100)
    /\ last.contact.penetration < Milli(50)

\* C19 as stated: when the velocity along the contact normal is zero or
\* separating, the resolver leaves velocity and angular velocity unchanged.
C19_SeparatingUntouched ==
    NotApproaching => /\ sphere.velocity = before.velocity
                      /\ sphere.angularVelocity = before.angularVelocity

\* C19: when the velocity along the contact normal is zero or separating, the
\* resolver leaves the angular velocity unchanged, and the velocity too unless
\* the mesh resolver finds a resting contact, whose normal velocity it halves.
C19_SeparatingOrResting ==
    NotApproaching
    => /\ sphere.angularVelocity = before.angularVelocity
       /\ sphere.velocity
            = IF RestingSeparation
              THEN VSub(before.velocity,
                        VScale(VScale(last.contact.normal, VnBefore), Milli(500)))
              ELSE before.velocity

\* a contact separating at 0.2 is resolved by the mesh resolver and moved
C19_Witness ==
    /\ op = "resolve" /\ last.contact.hit
    /\ VnBefore = Milli(200)
    /\ sphere.position # before.position
    /\ sphere.velocity = before.velocity

(***************************************************************************)
(* One simulation step over the floor list: gravity, update, then one      *)
(* collideWithTriangleMesh call for each floor (FloorManager.checkCollisions *)
(* and, from Setup.update, checkCollisionsWithProfiling).                  *)
(***************************************************************************)
MaxSteps == 2

\* FloorManager.createFloor for a box with center c and the given size
createFloorAt(c, sx, sy, sz) ==
    LET body == [PhysicsObject(0, c, Zero3) EXCEPT !.restitution = Milli(500),
                                                   !.friction = Unit]
    IN buildTriangleMesh(body, BoxTriangles(c, sx, sy, sz))

\* a contact resolved against the collider at the given position
Resolved(collider, contact) == [collider |-> collider.position, contact |-> contact]

\* the test of checkCollisionsWithProfiling on a floor the grid returned: the
\* box of half size (5, 0.5, 5) around the floor's position (no floor carries
\* dimensions) lies closer to the center than radius + 5
withinMargin(b, fl) ==
    LET clampTo(x, lo, hi) == Max(lo, Min(x, hi))
        dx == b.position.x - clampTo(b.position.x, fl.position.x - 5 * Unit,
                                     fl.position.x + 5 * Unit)
        dy == b.position.y - clampTo(b.position.y, fl.position.y - Milli(500),
                                     fl.position.y + Milli(500))
        dz == b.position.z - clampTo(b.position.z, fl.position.z - 5 * Unit,
                                     fl.position.z + 5 * Unit)
        checkRadius == b.radius + 5 * Unit
    IN dx * dx + dy * dy + dz * dz < checkRadius * checkRadius

RECURSIVE collideEach(_, _, _, _, _, _)
\* the loop over the floors from the i-th on: each floor (with nearOnly, each
\* floor that passes the margin test) is collided with in turn, each call
\* working on the body the call before it left
collideEach(b, floorSeq, dt, i, contacts, nearOnly) ==
    IF i > Len(floorSeq) THEN [body |-> b, contacts |-> contacts]
    ELSE LET next(out) ==
                 IF out.contact.hit
                 THEN collideEach(out.body, floorSeq, dt, i + 1,
                                  Append(contacts, Resolved(floorSeq[i], out.contact)),
                                  nearOnly)
                 ELSE collideEach(out.body, floorSeq, dt, i + 1, contacts, nearOnly)
         IN IF nearOnly => withinMargin(b, floorSeq[i])
            THEN next(collideWithTriangleMesh(b, floorSeq[i], dt))
            ELSE collideEach(b, floorSeq, dt, i + 1, contacts, nearOnly)

\* a loop that comes back to the first floor of the list at its end
checkCollisions_Again(b, floorSeq, dt) ==
    collideEach(b, Append(floorSeq, Head(floorSeq)), dt, 1, <<>>, FALSE)

\* FloorManager.checkCollisions(sphere, dt)
checkCollisions(b, floorSeq, dt) == collideEach(b, floorSeq, dt, 1, <<>>, FALSE)

\* checkCollisionsWithProfiling(floorManager, sphere, dt, profiler): the grid
\* returns every floor within radius + 30, the margin test keeps the near ones
checkCollisionsWithProfiling(b, floorSeq, dt) ==
    collideEach(b, floorSeq, dt, 1, <<>>, TRUE)

\* two floors that share the edge x = 2, a wall standing on the first along
\* x = -2, and a floor far away
FloorA == createFloorAt(Vec(0, 0 - Milli(500), 0), 4 * Unit, Unit, 4 * Unit)
FloorB == createFloorAt(Vec(4 * Unit, 0 - Milli(500), 0), 4 * Unit, Unit, 4 * Unit)
WallC == createFloorAt(Vec(0 - Milli(2500), Milli(1500), 0), Unit, 4 * Unit, 4 * Unit)
FloorFar == createFloorAt(Vec(40 * Unit, 0 - Milli(500), 0), 4 * Unit, Unit, 4 * Unit)
FloorLists == {<<FloorA, FloorB, WallC, FloorFar>>, <<FloorFar, WallC, FloorB, FloorA>>}

\* centers over the middle of the first floor, over the shared edge and in the
\* corner of floor and wall; resting on the floor or above it
StepCenters == {Vec(x, y, 0 - Milli(250)) : x \in {Milli(500), 2 * Unit, 0 - Milli(1050)},
                                            y \in {Milli(950), Milli(1500)}}
StepVelocities == {Zero3, Vec(0, 0 - 3 * Unit, 0), Vec(0, 0 - TunnelSpeed, 0)}

InitStep ==
    /\ meshes \in FloorLists
    /\ resolved = <<>>
    /\ \E c \in StepCenters, v \in StepVelocities :
          sphere = [PhysicsObject(Unit, c, v) EXCEPT !.friction = Unit]
    /\ before = sphere
    /\ op = "none" /\ frame = 0
    /\ floor = PhysicsObject(0, Zero3, Zero3)
    /\ useCCD = TRUE /\ gravityOn = TRUE
    /\ last = NoOutcome /\ contactAge = 0 /\ passed = FALSE
    /\ IdleTri /\ IdleBvh /\ IdleReg /\ IdleGrid /\ IdlePair /\ IdleClock /\ IdleMesh /\ IdleNode /\ IdleGen /\ IdleLoop /\ IdlePrune

\* the step done: the body, the contacts resolved in it, the function called
StepDone(name, out) ==
    /\ frame < MaxSteps
    /\ frame' = frame + 1
    /\ op' = name
    /\ before' = sphere
    /\ sphere' = out.body
    /\ resolved' = out.contacts
    /\ UNCHANGED <<meshes, floor, useCCD, gravityOn, last, contactAge, passed,
                   triVars, bvhVars, regVars, gridVars, pairVars, clockVars, meshVars, nodeVars, genVars, loopVars, pruneVars>>

\* applyGravity, updatePhysics(dt), floorManager.checkCollisions(sphere, dt)
StepAll ==
    StepDone("checkCollisions",
             checkCollisions(update(applyGravity(sphere), FrameDt), meshes, FrameDt))

\* applyGravity, updatePhysics(dt), checkCollisionsWithProfiling(...)
StepNearby ==
    StepDone("checkCollisionsWithProfiling",
             checkCollisionsWithProfiling(update(applyGravity(sphere), FrameDt),
                                          meshes, FrameDt))

NextStep == StepAll \/ StepNearby
SpecStep == InitStep /\ [][NextStep]_vars

RECURSIVE SubtreeTriangles(_)
SubtreeTriangles(node) ==
    IF ~node.hasAabb THEN <<>>
    ELSE IF node.isLeaf THEN node.triangles
    ELSE SubtreeTriangles(node.left) \o SubtreeTriangles(node.right)

\* the box is the smallest one around the boxes of the triangles
ExactUnion(box, triangles) ==
    LET range == 1..Len(triangles)
        least(c(_)) == CHOOSE m \in {c(triangles[i].aabb.min) : i \in range} :
                          \A i \in range : m <= c(triangles[i].aabb.min)
        most(c(_)) == CHOOSE m \in {c(triangles[i].aabb.max) : i \in range} :
                         \A i \in range : m >= c(triangles[i].aabb.max)
        X(v) == v.x
        Y(v) == v.y
        Z(v) == v.z
    IN /\ box.min = Vec(least(X), least(Y), least(Z))
       /\ box.max = Vec(most(X), most(Y), most(Z))

\* every node at or below this one, found at the given depth, is as C21 says
RECURSIVE WellFormed(_, _)
WellFormed(node, depth) ==
    IF ~node.hasAabb THEN node = BVHNode
    ELSE /\ ExactUnion(node.aabb, SubtreeTriangles(node))
         /\ IF node.isLeaf
            THEN Len(node.triangles) <= LeafSize \/ depth > MaxDepth
            ELSE /\ node.triangles = <<>>
                 /\ WellFormed(node.left, depth + 1)
                 /\ WellFormed(node.right, depth + 1)

\* C21: in every BVH produced by BVH.build, each node's aabb is the exact
\* union of the AABBs of the triangles in its subtree, internal nodes hold no
\* triangles, and every leaf holds at most 4 triangles unless it was cut off
\* at depth > 20.
C21_TreeWellFormed == bvh.built => WellFormed(bvh.root, 0)

\* a tree of more than 32 triangles: internal nodes on four levels
C21_Witness ==
    /\ bvh.built
    /\ Len(soup) > 32
    /\ ~bvh.root.isLeaf
    /\ ~bvh.root.left.isLeaf
    /\ ~bvh.root.left.left.isLeaf
    /\ ~bvh.root.left.left.left.isLeaf

\* C22: querySphere visits nearer subtrees first: each time it takes a node
\* from its pending stack, no other pending node has a smaller distance from
\* its AABB center to the query center.
C22_NearestFirst ==
    qres.done =>
        \A i \in 1..Len(qres.visits) :
            \A j \in 1..Len(qres.visits[i].pending) :
                qres.visits[i].distSq <= qres.visits[i].pending[j]

(***************************************************************************)
(* A static body under transformation.  The mesh transform is a position   *)
(* and a rotation about Z in quarter turns, which map integer vertices to  *)
(* integer vertices.                                                       *)
(***************************************************************************)
MaxMeshCalls == 3

\* the geometry's vertices in local space, three per triangle
StripGeometry ==
    [i \in 1..6 |-> <<Vec(2 * i, 0, 0), Vec(2 * i + 2, 0, 0), Vec(2 * i, 1, 0)>>]

\* a rotation about Z by `turns` quarter turns applied to a vector
RECURSIVE applyQuarterTurns(_, _)
applyQuarterTurns(v, turns) ==
    IF turns % 4 = 0 THEN v
    ELSE applyQuarterTurns(Vec(0 - v.y, v.x, v.z), (turns % 4) - 1)

\* Vector3.applyMatrix4(mesh.matrixWorld) for a mesh with this rotation and position
applyMatrix4(v, rotation, position) == VAdd(applyQuarterTurns(v, rotation), position)

\* the triangles buildTriangleMesh reads from the geometry through mesh.matrixWorld
worldTriangles(geometry, rotation, position) ==
    [i \in 1..Len(geometry) |->
        Triangle(i, applyMatrix4(geometry[i][1], rotation, position),
                    applyMatrix4(geometry[i][2], rotation, position),
                    applyMatrix4(geometry[i][3], rotation, position))]

\* a static PhysicsObject with its mesh, before buildTriangleMesh
StaticMesh(geometry) ==
    [geometry |-> geometry, meshRotation |-> 0, meshPosition |-> Zero3]
        @@ PhysicsObject(0, Zero3, Zero3)

\* body.buildTriangleMesh()
meshBuild(b) ==
    buildTriangleMesh(b, worldTriangles(b.geometry, b.meshRotation, b.meshPosition))

\* body.rebuildCollisionMesh()
meshRebuild(b) ==
    rebuildCollisionMesh(b, worldTriangles(b.geometry, b.meshRotation, b.meshPosition))

\* a rotateZ that leaves the collision mesh alone
rotateZ_NoRebuild(b, turns) == [b EXCEPT !.meshRotation = (@ + turns) % 4]

\* body.rotateZ(angle), the angle in quarter turns
rotateZ(b, turns) == meshRebuild([b EXCEPT !.meshRotation = (@ + turns) % 4])

\* body.translate(x, y, z): along the mesh's own axes
translate(b, x, y, z) ==
    LET position == VAdd(b.meshPosition, applyQuarterTurns(Vec(x, y, z), b.meshRotation))
    IN meshRebuild([b EXCEPT !.meshPosition = position, !.position = position])

\* FloorNode.updateFloorTransform with this midpoint and world rotation
updateFloorTransform(b, midWorld, worldRot) ==
    meshRebuild([b EXCEPT !.meshPosition = midWorld, !.meshRotation = worldRot,
                          !.position = midWorld])

MeshShifts == {Vec(1, 0, 0), Vec(0, 0 - 2, 0)}

InitMesh ==
    /\ staticBody = StaticMesh(StripGeometry)
    /\ meshCalls = 0
    /\ IdleTri /\ IdleBvh /\ IdleSim /\ IdleOne /\ IdleReg /\ IdleGrid /\ IdlePair /\ IdleClock /\ IdleStep /\ IdleNode /\ IdleGen /\ IdleLoop /\ IdlePrune

MeshUnchanged ==
    UNCHANGED <<triVars, bvhVars, simVars, oneVars, regVars, gridVars, pairVars,
                clockVars, stepVars, nodeVars, genVars, loopVars, pruneVars>>

BuildTriangleMesh ==
    /\ meshCalls < MaxMeshCalls
    /\ staticBody' = meshBuild(staticBody)
    /\ meshCalls' = meshCalls + 1
    /\ MeshUnchanged

RebuildCollisionMesh ==
    /\ meshCalls < MaxMeshCalls
    /\ staticBody' = meshRebuild(staticBody)
    /\ meshCalls' = meshCalls + 1
    /\ MeshUnchanged

RotateZ ==
    /\ meshCalls < MaxMeshCalls
    /\ \E turns \in 1..3 : staticBody' = rotateZ(staticBody, turns)
    /\ meshCalls' = meshCalls + 1
    /\ MeshUnchanged

Translate ==
    /\ meshCalls < MaxMeshCalls
    /\ \E d \in MeshShifts : staticBody' = translate(staticBody, d.x, d.y, d.z)
    /\ meshCalls' = meshCalls + 1
    /\ MeshUnchanged

UpdateFloorTransform ==
    /\ meshCalls < MaxMeshCalls
    /\ \E d \in MeshShifts, turns \in 0..1 :
          staticBody' = updateFloorTransform(staticBody, d, turns)
    /\ meshCalls' = meshCalls + 1
    /\ MeshUnchanged

NextMesh ==
    BuildTriangleMesh \/ RebuildCollisionMesh \/ RotateZ \/ Translate
        \/ UpdateFloorTransform
SpecMesh == InitMesh /\ [][NextMesh]_vars

\* the set of elements of a sequence
Range(s) == {s[i] : i \in 1..Len(s)}

\* the triangles the visual mesh shows now
VisualTriangles ==
    Range(worldTriangles(staticBody.geometry, staticBody.meshRotation,
                         staticBody.meshPosition))

\* C23: after any sequence of buildTriangleMesh, rebuildCollisionMesh, rotate and
\* translate calls on a static body, its triangle list is the one computed from
\* the mesh's current world transform and its BVH indexes exactly those triangles.
C23_CollisionMeshCurrent ==
    meshCalls > 0 =>
        /\ Range(staticBody.triangles) = VisualTriangles
        /\ staticBody.bvhBuilt
        /\ staticBody.bvh.built
        /\ Range(SubtreeTriangles(staticBody.bvh.root)) = VisualTriangles
        /\ Len(SubtreeTriangles(staticBody.bvh.root)) = Len(staticBody.geometry)

C23_Witness ==
    /\ meshCalls = MaxMeshCalls
    /\ staticBody.meshRotation = 1
    /\ staticBody.meshPosition # Zero3
    /\ staticBody.bvhBuilt
    /\ ~staticBody.bvh.root.isLeaf

(***************************************************************************)
(* Material coefficients: the single-contact calls for a sphere and a      *)
(* floor whose restitution and friction differ in both directions.         *)
(***************************************************************************)
MatCoefficients == {Milli(100), Milli(500), Unit}
MatVelocities == {Vec(3 * Unit, 0 - 4 * Unit, 0), Vec(Unit, 0 - 5 * Unit, 2 * Unit),
                  Vec(3 * Unit, 0 - Unit, 0)}

InitMat ==
    /\ \E e \in {Milli(500), Unit}, f \in MatCoefficients : floor = createFloor(e, f)
    /\ \E v \in MatVelocities, e \in {Milli(700), Unit}, f \in MatCoefficients :
          sphere = [PhysicsObject(Unit, Vec(0, FloorTop + Milli(960), 0), v)
                      EXCEPT !.restitution = e, !.friction = f]
    /\ before = sphere
    /\ op = "none"
    /\ last = NoOutcome
    /\ useCCD = TRUE /\ gravityOn = FALSE /\ frame = 0 /\ contactAge = 0
    /\ passed = FALSE
    /\ IdleTri /\ IdleBvh /\ IdleReg /\ IdleGrid /\ IdlePair /\ IdleClock /\ IdleStep /\ IdleMesh /\ IdleNode /\ IdleGen /\ IdleLoop /\ IdlePrune

SpecMat == InitMat /\ [][NextOne]_vars

\* the body before the call with its coefficients replaced by the combined ones
Combined ==
    [before EXCEPT !.restitution = CombinedRestitution, !.friction = CombinedFriction]

\* the call that was made, repeated on the body with the combined coefficients
AsCombined ==
    IF op = "plane"
    THEN bounceOffPlane(Combined, Vec(0, FloorTop, 0), Vec(0, Unit, 0),
                        floor.restitution).body
    ELSE IF op = "mesh" THEN collideWithTriangleMesh(Combined, floor, FrameDt).body
    ELSE handleCollisionResponse(Combined, last.contact, floor)

\* C24: every resolution path uses min(body.restitution, surface.restitution)
\* and min(body.friction, surface.friction): the velocities after the call are
\* those of a body whose own coefficients are already these minima.
C24_MinCombination ==
    (op # "none" /\ last.contact.hit) =>
        /\ sphere.velocity = AsCombined.velocity
        /\ sphere.angularVelocity = AsCombined.angularVelocity

(***************************************************************************)
(* FloorNode: local frames, anchors and the world-transform cache.         *)
(* Rotations are about Z and counted in quarter turns; a cache that is     *)
(* null is the empty sequence.                                             *)
(***************************************************************************)
MaxNodeCalls == 3

\* new FloorNode(null, parent) with the given local frame; parent 0 is null
FloorNode(parent, children, localPosition, localRotation) ==
    [parent |-> parent, children |-> children,
     localPosition |-> localPosition, localRotation |-> localRotation,
     anchoredRotationZ |-> <<>>,
     worldPositionCache |-> <<>>, worldRotationCache |-> <<>>, cacheValid |-> FALSE]

RECURSIVE invalidateFrom(_, _)
\* invalidateCache of each node of the list in turn
invalidateFrom(t, pending) ==
    IF pending = <<>> THEN t
    ELSE invalidateFrom([t EXCEPT ![Head(pending)].cacheValid = FALSE],
                        t[Head(pending)].children \o Tail(pending))

\* node.invalidateCache()
invalidateCache(t, n) == invalidateFrom(t, <<n>>)

RECURSIVE getWorldRotation(_, _)
\* node.getWorldRotation(): the value returned and the nodes after the call
getWorldRotation(t, n) ==
    IF t[n].cacheValid /\ t[n].worldRotationCache # <<>>
    THEN [tree |-> t, value |-> t[n].worldRotationCache[1]]
    ELSE LET up == IF t[n].parent # 0 THEN getWorldRotation(t, t[n].parent)
                   ELSE [tree |-> t, value |-> 0]
             summed == IF t[n].parent # 0 THEN up.value + t[n].localRotation
                       ELSE t[n].localRotation
             worldRot == IF t[n].anchoredRotationZ # <<>>
                         THEN t[n].anchoredRotationZ[1] ELSE summed
         IN [tree |-> [up.tree EXCEPT ![n].worldRotationCache = <<worldRot>>],
             value |-> worldRot]

RECURSIVE getWorldPosition(_, _)
\* node.getWorldPosition(): the value returned and the nodes after the call
getWorldPosition(t, n) ==
    IF t[n].cacheValid /\ t[n].worldPositionCache # <<>>
    THEN [tree |-> t, value |-> t[n].worldPositionCache[1]]
    ELSE IF t[n].parent = 0
    THEN [tree |-> [t EXCEPT ![n].worldPositionCache = <<t[n].localPosition>>,
                             ![n].cacheValid = TRUE],
          value |-> t[n].localPosition]
    ELSE LET parentPos == getWorldPosition(t, t[n].parent)
             parentRot == getWorldRotation(parentPos.tree, t[n].parent)
             rotatedLocal == applyQuarterTurns(t[n].localPosition, parentRot.value)
             world == VAdd(parentPos.value, rotatedLocal)
         IN [tree |-> [parentRot.tree EXCEPT ![n].worldPositionCache = <<world>>,
                                             ![n].cacheValid = TRUE],
             value |-> world]

\* node.setLocal(position, rotation)
setLocal(t, n, position, rotation) ==
    invalidateCache([t EXCEPT ![n].localPosition = position,
                              ![n].localRotation = rotation], n)

\* node.setAnchors(null, null, rotZ)
setAnchors(t, n, rotZ) == invalidateCache([t EXCEPT ![n].anchoredRotationZ = rotZ], n)

\* node.rotate(0, 0, z)
nodeRotate(t, n, z) == invalidateCache([t EXCEPT ![n].localRotation = @ + z], n)

\* node.translate(x, y, z)
nodeTranslate(t, n, d) == invalidateCache([t EXCEPT ![n].localPosition = VAdd(@, d)], n)

\* whether s holds x
Includes(s, x) == \E i \in 1..Len(s) : s[i] = x

\* node.addChild(childNode)
addChild(t, n, childNode) ==
    IF Includes(t[n].children, childNode) THEN t
    ELSE invalidateCache([t EXCEPT ![n].children = Append(@, childNode),
                                   ![childNode].parent = n], childNode)

\* a root, its child and its grandchild, and a second root
InitNode ==
    /\ \E r \in 0..1 :
          tree = <<FloorNode(0, <<2>>, Vec(1, 0, 0), r),
                   FloorNode(1, <<3>>, Vec(2, 0, 0), 1),
                   FloorNode(2, <<>>, Vec(0, 3, 0), 0),
                   FloorNode(0, <<>>, Vec(0, 0, 5), 2)>>
    /\ answer = NoAnswer
    /\ nodeCalls = 0
    /\ IdleTri /\ IdleBvh /\ IdleSim /\ IdleOne /\ IdleReg /\ IdleGrid /\ IdlePair /\ IdleClock /\ IdleStep /\ IdleMesh /\ IdleGen /\ IdleLoop /\ IdlePrune

NodeIds == 1..4

NodeCall(t) ==
    /\ nodeCalls < MaxNodeCalls
    /\ nodeCalls' = nodeCalls + 1
    /\ tree' = t
    /\ answer' = NoAnswer
    /\ UNCHANGED <<triVars, bvhVars, simVars, oneVars, regVars, gridVars, pairVars, clockVars, stepVars, meshVars, genVars, loopVars, pruneVars>>

NodeQuery(kind, n, out) ==
    /\ nodeCalls < MaxNodeCalls
    /\ nodeCalls' = nodeCalls + 1
    /\ tree' = out.tree
    /\ answer' = [kind |-> kind, node |-> n, value |-> out.value]
    /\ UNCHANGED <<triVars, bvhVars, simVars, oneVars, regVars, gridVars, pairVars, clockVars, stepVars, meshVars, genVars, loopVars, pruneVars>>

GetWorldPosition == \E n \in NodeIds : NodeQuery("position", n, getWorldPosition(tree, n))
GetWorldRotation == \E n \in NodeIds : NodeQuery("rotation", n, getWorldRotation(tree, n))
SetLocal == \E n \in NodeIds : NodeCall(setLocal(tree, n, Vec(0, 1, 1), 3))
SetAnchors == \E n \in NodeIds, rotZ \in {<<>>, <<2>>} : NodeCall(setAnchors(tree, n, rotZ))
NodeRotate == \E n \in NodeIds : NodeCall(nodeRotate(tree, n, 1))
NodeTranslate == \E n \in NodeIds : NodeCall(nodeTranslate(tree, n, Vec(0, 1, 0)))
\* the second root is attached below a node of the first tree
AddChild == \E n \in 1..3 : NodeCall(addChild(tree, n, 4))

NextNode ==
    GetWorldPosition \/ GetWorldRotation \/ SetLocal \/ SetAnchors \/ NodeRotate
        \/ NodeTranslate \/ AddChild
SpecNode == InitNode /\ [][NextNode]_vars

RECURSIVE WorldRotation(_, _)
\* the world rotation that follows from the local rotations and anchors
WorldRotation(t, n) ==
    IF t[n].anchoredRotationZ # <<>> THEN t[n].anchoredRotationZ[1]
    ELSE IF t[n].parent = 0 THEN t[n].localRotation
    ELSE WorldRotation(t, t[n].parent) + t[n].localRotation

RECURSIVE WorldPosition(_, _)
\* the world position that follows from the local frames of the node's ancestors
WorldPosition(t, n) ==
    IF t[n].parent = 0 THEN t[n].localPosition
    ELSE VAdd(WorldPosition(t, t[n].parent),
              applyQuarterTurns(t[n].localPosition, WorldRotation(t, t[n].parent)))

\* C25: the world-transform cache never serves stale values: what
\* getWorldPosition and getWorldRotation return is the value computed from the
\* current local transforms and anchors of the node and its ancestors.
C25_CacheNeverStale ==
    /\ answer.kind = "position" => answer.value = WorldPosition(tree, answer.node)
    /\ answer.kind = "rotation" => answer.value = WorldRotation(tree, answer.node)

(***************************************************************************)
(* GameLogic.update, step by step: the distance is computed on entry, the  *)
(* loop body is generateNextFloor, and the call returns when the loop      *)
(* condition fails.  floorCount is read only through % 15, % 10 and % 50   *)
(* and is kept modulo their least common multiple; branch ends stop        *)
(* growing at MaxEndX.                                                     *)
(***************************************************************************)
lookahead == 10            \* this.lookahead
branchInterval == 15       \* this.branchInterval
FloorCountCycle == 150
MaxEndX == 140

PlayerXs == {0, 15, 40}
\* the x extent of a new segment of length 10 at the rotation its branch has
\* reached
Advances == {10, 8}

RECURSIVE maxEnd(_, _, _)
\* the loop over this.branches in update
maxEnd(bs, i, maxX) ==
    IF i > Len(bs) THEN maxX
    ELSE maxEnd(bs, i + 1, IF maxX = <<>> \/ bs[i] > maxX[1] THEN <<bs[i]>> ELSE maxX)

\* the end of a segment created by createNext on a branch that ends at x
createNext(x, advance) == Min(x + advance, MaxEndX)

\* generateNextFloor with the branch picked and the extents of the new segments
generateNextFloor(bs, count, branchIndex, advance) ==
    LET n == (count + 1) % FloorCountCycle
        next == createNext(bs[branchIndex], advance)
    IN IF n % branchInterval = 0 /\ Len(bs) < 3
       THEN [branches |-> [bs EXCEPT ![branchIndex] = next] \o <<next, next>>,
             floorCount |-> n]
       ELSE [branches |-> [bs EXCEPT ![branchIndex] = next], floorCount |-> n]

minLookaheadDistance == lookahead * 10

\* the constructor has generated `lookahead` floors on the main branch
InitGen ==
    /\ genPc = "idle"
    /\ playerX \in PlayerXs
    /\ branches \in {<<100>>, <<110>>}
    /\ floorCount = lookahead
    /\ distanceToEnd = 0
    /\ IdleTri /\ IdleBvh /\ IdleSim /\ IdleOne /\ IdleReg /\ IdleGrid /\ IdlePair /\ IdleClock /\ IdleStep /\ IdleMesh /\ IdleNode /\ IdleLoop /\ IdlePrune

GenOthers ==
    UNCHANGED <<triVars, bvhVars, simVars, oneVars, regVars, gridVars, pairVars, clockVars, stepVars, meshVars, nodeVars, loopVars, pruneVars>>

\* the physics step moves the player between two calls of update
MovePlayer ==
    /\ genPc = "idle"
    /\ playerX' \in PlayerXs \ {playerX}
    /\ UNCHANGED <<genPc, branches, floorCount, distanceToEnd, loopVars, pruneVars>>
    /\ GenOthers

\* update() up to the loop: distanceToEnd = maxX - playerX
UpdateEnter ==
    /\ genPc = "idle"
    /\ genPc' = "loop"
    /\ distanceToEnd' = maxEnd(branches, 1, <<>>)[1] - playerX
    /\ UNCHANGED <<playerX, branches, floorCount, loopVars, pruneVars>>
    /\ GenOthers

\* one pass of `while (distanceToEnd < minLookaheadDistance)`
LoopBody ==
    /\ genPc = "loop"
    /\ distanceToEnd < minLookaheadDistance
    /\ \E branchIndex \in 1..Len(branches), advance \in Advances :
          \E out \in {generateNextFloor(branches, floorCount, branchIndex, advance)} :
              /\ branches' = out.branches
              /\ floorCount' = out.floorCount
    /\ UNCHANGED <<genPc, playerX, distanceToEnd, loopVars, pruneVars>>
    /\ GenOthers

\* the loop condition fails and update returns
UpdateReturn ==
    /\ genPc = "loop"
    /\ ~(distanceToEnd < minLookaheadDistance)
    /\ genPc' = "idle"
    /\ UNCHANGED <<playerX, branches, floorCount, distanceToEnd, loopVars, pruneVars>>
    /\ GenOthers

NextGen == MovePlayer \/ UpdateEnter \/ LoopBody \/ UpdateReturn
SpecGen == InitGen /\ [][NextGen]_vars
\* a call of update that has been entered keeps running
SpecGenLive == SpecGen /\ WF_vars(LoopBody \/ UpdateReturn)

\* C26: GameLogic.update() terminates on every call: the floor-generation loop
\* makes finitely many generateNextFloor() calls and update returns.
C26_UpdateReturns == (genPc = "loop") ~> (genPc = "idle")

(***************************************************************************)
(* The animation loop of main.js with its pause and resume handlers, and   *)
(* the clock of Setup.update.  Times are in milliseconds; performance.now() *)
(* and the timestamps of animation frames read the same clock, `now`.      *)
(* upd records the last call of game.update: the game time passed and the  *)
(* one before it, the real time of the frame, and the pause and resume     *)
(* events since the call before.                                           *)
(***************************************************************************)
MaxNow == 90

ConstructionTimes == {5, 20}
Elapses == {10, 30}

\* a resumeClock that keeps the offset it finds
resumeClock_Keep(offset, currentRAFTime, lastGameTime) == offset

\* resumeClock(currentRAFTime): the new timeOffset
resumeClock(offset, currentRAFTime, lastGameTime) == currentRAFTime - lastGameTime

\* new Setup(...) at some time after the page's time origin
InitLoop ==
    /\ now \in ConstructionTimes
    /\ lastTime = now /\ rawDt = 0 /\ stepDt = 0
    /\ timeOffset = 0 /\ lastValidTime = 0 /\ isFirstFrame = TRUE
    /\ isFocused = TRUE /\ hidden = FALSE
    /\ upd = NoUpdate
    /\ IdleTri /\ IdleBvh /\ IdleSim /\ IdleOne /\ IdleReg /\ IdleGrid /\ IdlePair /\ IdleStep /\ IdleMesh /\ IdleNode /\ IdleGen /\ IdlePrune

LoopOthers ==
    UNCHANGED <<triVars, bvhVars, simVars, oneVars, regVars, gridVars, pairVars, stepVars, meshVars, nodeVars, genVars, pruneVars>>

\* real time passes
Elapse ==
    /\ \E d \in Elapses : now + d <= MaxNow /\ now' = now + d
    /\ UNCHANGED <<timeOffset, lastValidTime, isFirstFrame, isFocused, hidden, upd,
                   clockVars, pruneVars>>
    /\ LoopOthers

\* animate(time) with game.update(currentTime) up to the clamped step
Animate ==
    LET time == now
        offset == IF isFirstFrame THEN time ELSE timeOffset
        currentTime == time - offset
    IN /\ timeOffset' = offset
       /\ isFirstFrame' = FALSE
       /\ IF isFocused
          THEN /\ lastValidTime' = currentTime
               /\ rawDt' = currentTime - lastTime
               /\ lastTime' = currentTime
               /\ stepDt' = clampedDt(currentTime - lastTime)
               /\ upd' = [ran |-> TRUE,
                          prev |-> IF upd.ran THEN <<upd.time>> ELSE <<>>,
                          time |-> currentTime, at |-> time,
                          pausedAt |-> upd.pendingPause,
                          resumed |-> upd.pendingResume,
                          whilePaused |-> upd.pendingPause # <<>>
                                            /\ upd.pendingResume = <<>>,
                          pendingPause |-> <<>>, pendingResume |-> <<>>]
          ELSE UNCHANGED <<lastValidTime, clockVars, upd, pruneVars>>
       /\ UNCHANGED <<now, isFocused, hidden, pruneVars>>
       /\ LoopOthers

\* pauseClock()
Pause ==
    /\ isFocused' = FALSE
    /\ upd' = [upd EXCEPT !.pendingPause = IF @ = <<>> \/ upd.pendingResume # <<>>
                                           THEN <<now>> ELSE @,
                          !.pendingResume = <<>>]

\* resumeClock(performance.now())
Resume ==
    /\ isFocused' = TRUE
    /\ timeOffset' = resumeClock(timeOffset, now, lastValidTime)
    /\ upd' = [upd EXCEPT !.pendingResume = <<now>>]

\* the window's blur event
Blur ==
    /\ Pause
    /\ UNCHANGED <<now, timeOffset, lastValidTime, isFirstFrame, hidden, clockVars, pruneVars>>
    /\ LoopOthers

\* the window's focus event
Focus ==
    /\ Resume
    /\ UNCHANGED <<now, lastValidTime, isFirstFrame, hidden, clockVars, pruneVars>>
    /\ LoopOthers

\* the document's visibilitychange event
VisibilityChange ==
    /\ hidden' = ~hidden
    /\ IF hidden' THEN Pause /\ UNCHANGED timeOffset ELSE Resume
    /\ UNCHANGED <<now, lastValidTime, isFirstFrame, clockVars, pruneVars>>
    /\ LoopOthers

NextLoop == Elapse \/ Animate \/ Blur \/ Focus \/ VisibilityChange
SpecLoop == InitLoop /\ [][NextLoop]_vars

\* C27: the time step Setup.update passes on is never negative, on the first
\* frame after start-up and after a pause and resume included.
C27_StepNonNegative == upd.ran => stepDt >= 0

\* C28: across interleavings of frames with blur, focus and visibilitychange,
\* the game time passed to game.update never decreases; after a resume it
\* exceeds the last game time by no more than the real time since the resume
\* event; and no update runs while the clock is paused.
C28_GameTimeContinuous ==
    upd.ran =>
        /\ upd.prev # <<>> => upd.time >= upd.prev[1]
        /\ (upd.prev # <<>> /\ upd.resumed # <<>>)
              => upd.time - upd.prev[1] <= upd.at - upd.resumed[1]
        /\ ~upd.whilePaused

\* an update after a pause that lasted and a resume, later than the resume
C28_Witness ==
    /\ upd.ran
    /\ upd.prev # <<>>
    /\ upd.pausedAt # <<>>
    /\ upd.resumed # <<>>
    /\ upd.resumed[1] > upd.pausedAt[1]
    /\ upd.at > upd.resumed[1]
    /\ upd.time > upd.prev[1]

(***************************************************************************)
(* FloorTree.pruneDistantNodes on a tree of FloorNodes that carry floors.  *)
(* A node's floor has the node's id; distances are compared squared.       *)
(***************************************************************************)
MaxPrunes == 2

\* s without its first occurrence of x: indexOf and splice(index, 1)
Spliced(s, x) ==
    IF ~Includes(s, x) THEN s
    ELSE LET i == CHOOSE k \in 1..Len(s) :
                     s[k] = x /\ \A j \in 1..(k - 1) : s[j] # x
         IN SubSeq(s, 1, i - 1) \o SubSeq(s, i + 1, Len(s))

\* node.removeChild(childNode)
removeChild(t, n, childNode) ==
    IF Includes(t[n].children, childNode)
    THEN [t EXCEPT ![n].children = Spliced(@, childNode), ![childNode].parent = 0]
    ELSE t

RECURSIVE collectDistant(_, _, _, _, _, _)
\* the first loop of pruneDistantNodes: the nodes to remove and the tree with
\* the caches the position queries filled
collectDistant(t, all, i, referencePoint, maxDistance, toRemove) ==
    IF i > Len(all) THEN [tree |-> t, toRemove |-> toRemove]
    ELSE IF t[all[i]].floor = 0
    THEN collectDistant(t, all, i + 1, referencePoint, maxDistance, toRemove)
    ELSE LET worldPos == getWorldPosition(t, all[i])
             d == VSub(worldPos.value, referencePoint)
             far == Dot(d, d) > maxDistance * maxDistance
         IN collectDistant(worldPos.tree, all, i + 1, referencePoint, maxDistance,
                           IF far THEN Append(toRemove, all[i]) ELSE toRemove)

RECURSIVE removeAll(_, _, _, _)
\* the second loop of pruneDistantNodes
removeAll(t, all, floorList, toRemove) ==
    IF toRemove = <<>> THEN [tree |-> t, allNodes |-> all, floors |-> floorList]
    ELSE LET node == Head(toRemove)
             unlinked == IF t[node].parent # 0
                         THEN removeChild(t, t[node].parent, node) ELSE t
         IN removeAll(unlinked, Spliced(all, node),
                      Spliced(floorList, t[node].floor), Tail(toRemove))

\* floorTree.pruneDistantNodes(referencePoint, maxDistance, floorManager)
pruneDistantNodes(t, all, floorList, referencePoint, maxDistance) ==
    LET found == collectDistant(t, all, 1, referencePoint, maxDistance, <<>>)
        out == removeAll(found.tree, all, floorList, found.toRemove)
    IN [tree |-> out.tree, allNodes |-> out.allNodes, floors |-> out.floors,
        removed |-> found.toRemove]

\* a node created by createNext, with its floor
FloorNodeWith(id, parent, children, localPosition) ==
    [floor |-> id] @@ FloorNode(parent, children, localPosition, 0)

\* a main path of four segments with a side branch at the second or the third
PruneTrees ==
    {<<FloorNodeWith(1, 0, <<2>>, Vec(0, 0, 0)),
       FloorNodeWith(2, 1, IF at = 2 THEN <<3, 5>> ELSE <<3>>, Vec(step, 0, 0)),
       FloorNodeWith(3, 2, IF at = 3 THEN <<4, 5>> ELSE <<4>>, Vec(step, 0, 0)),
       FloorNodeWith(4, 3, <<>>, Vec(step, 0, 0)),
       FloorNodeWith(5, at, <<>>, Vec(step, 0, side))>> :
        at \in 2..3, step \in {10, 12}, side \in {0 - 8, 8}}

ReferencePoints == {Vec(0, 0, 0), Vec(20, 0, 0), Vec(36, 0, 0), Vec(30, 0, 8)}
MaxDistances == {15, 25}

InitPrune ==
    /\ tree \in PruneTrees
    /\ allNodes = <<1, 2, 3, 4, 5>>
    /\ managerFloors = <<1, 2, 3, 4, 5>>
    /\ removedNodes = {}
    /\ pruneCalls = 0
    /\ answer = NoAnswer /\ nodeCalls = 0
    /\ IdleTri /\ IdleBvh /\ IdleSim /\ IdleOne /\ IdleReg /\ IdleGrid /\ IdlePair /\ IdleClock /\ IdleStep /\ IdleMesh /\ IdleGen /\ IdleLoop

\* the cleanup of GameLogic.update
PruneDistantNodes ==
    /\ pruneCalls < MaxPrunes
    /\ \E referencePoint \in ReferencePoints, maxDistance \in MaxDistances :
          \E out \in {pruneDistantNodes(tree, allNodes, managerFloors,
                                        referencePoint, maxDistance)} :
              /\ tree' = out.tree
              /\ allNodes' = out.allNodes
              /\ managerFloors' = out.floors
              /\ removedNodes' = removedNodes \cup Range(out.removed)
    /\ pruneCalls' = pruneCalls + 1
    /\ UNCHANGED <<answer, nodeCalls, triVars, bvhVars, simVars, oneVars, regVars, gridVars, pairVars, clockVars, stepVars, meshVars, genVars, loopVars>>

NextPrune == PruneDistantNodes
SpecPrune == InitPrune /\ [][NextPrune]_vars

\* C29: after pruneDistantNodes every node still in allNodes has a parent that
\* is null or still in allNodes, no removed node is in a remaining node's
\* children list, and no removed node's floor is in floorManager.floors.
C29_TreeConsistent ==
    pruneCalls > 0 =>
        /\ \A n \in Range(allNodes) :
              tree[n].parent = 0 \/ tree[n].parent \in Range(allNodes)
        /\ \A n \in Range(allNodes), r \in removedNodes :
              ~Includes(tree[n].children, r)
        /\ \A r \in removedNodes : tree[r].floor \notin Range(managerFloors)

RECURSIVE SplitsProper(_)
\* every internal node of the subtree has two halves that hold triangles
SplitsProper(node) ==
    \/ ~node.hasAabb
    \/ node.isLeaf
    \/ /\ Len(SubtreeTriangles(node.left)) > 0
       /\ Len(SubtreeTriangles(node.right)) > 0
       /\ SplitsProper(node.left)
       /\ SplitsProper(node.right)

\* how many entries of s equal x
Occurrences(s, x) == Cardinality({k \in 1..Len(s) : s[k] = x})

\* C30: BVH.build returns a tree that partitions the triangle list: every input
\* triangle is in exactly one leaf, and neither half of any split is empty, so
\* each recursive call gets a strictly shorter list and the build terminates.
C30_BuildPartitions ==
    bvh.built =>
        /\ Len(SubtreeTriangles(bvh.root)) = Len(soup)
        /\ \A i \in 1..Len(soup) : Occurrences(SubtreeTriangles(bvh.root), soup[i]) = 1
        /\ SplitsProper(bvh.root)

\* an odd number of triangles, split unevenly and split again on both sides
C30_Witness ==
    /\ bvh.built
    /\ Len(soup) % 2 = 1
    /\ ~bvh.root.isLeaf
    /\ ~bvh.root.right.isLeaf
    /\ ~bvh.root.left.isLeaf
    /\ Len(SubtreeTriangles(bvh.root.left)) < Len(SubtreeTriangles(bvh.root.right))

====
